---- MODULE Spec2Model ----
(***************************************************************************)
(* Draft session of src/src/draft/main.py: the league-aware draft manager  *)
(* (LeagueAwareDraftManager), its roster slot manager (RosterSlotManager)  *)
(* and the undo / drop / save / load operations it delegates to            *)
(* SuperflexDraftManager.                                                  *)
(*                                                                         *)
(* Python str values are modelled as sequences of one-character strings,   *)
(* so that lower(), startswith(), "in", split() and difflib's matcher are  *)
(* computed character by character as the source computes them.            *)
(***************************************************************************)
EXTENDS Integers, Sequences, FiniteSets, TLC

----------------------------------------------------------------------------
(* Python string primitives                                                *)

UpperChars ==
    << "A","B","C","D","E","F","G","H","I","J","K","L","M",
       "N","O","P","Q","R","S","T","U","V","W","X","Y","Z" >>

LowerChars ==
    << "a","b","c","d","e","f","g","h","i","j","k","l","m",
       "n","o","p","q","r","s","t","u","v","w","x","y","z" >>

DigitChars ==
    << "0","1","2","3","4","5","6","7","8","9" >>

\* str.lower() on one character
LowerChar(c) ==
    IF \E i \in 1..Len(UpperChars) : UpperChars[i] = c
    THEN LowerChars[CHOOSE i \in 1..Len(UpperChars) : UpperChars[i] = c]
    ELSE c

\* str.lower(), computed
LowerOf(s) ==
    [i \in 1..Len(s) |-> LowerChar(s[i])]

\* str.startswith(p)
StartsWith(s, p) ==
    /\ Len(p) <= Len(s)
    /\ SubSeq(s, 1, Len(p)) = p

\* "sub in s" on strings
Contains(s, sub) ==
    \E i \in 1..(Len(s) - Len(sub) + 1) : SubSeq(s, i, i + Len(sub) - 1) = sub

\* str(n) for n >= 0
RECURSIVE IntToStr(_)
IntToStr(n) ==
    IF n < 10
    THEN << DigitChars[n + 1] >>
    ELSE IntToStr(n \div 10) \o << DigitChars[(n % 10) + 1] >>

\* str.strip(): leading and trailing blanks removed
RECURSIVE Strip(_)
Strip(s) ==
    IF s = << >> THEN s
    ELSE IF s[1] = " " THEN Strip(Tail(s))
    ELSE IF s[Len(s)] = " " THEN Strip(SubSeq(s, 1, Len(s) - 1))
    ELSE s

----------------------------------------------------------------------------
(* The ranked player file and the typed texts of the model                  *)

\* the rows of the ranked player file, best first
RawPool ==
    << [player |-> << "J","o","s","h"," ","A","l","l","e","n" >>,
        pos |-> << "Q","B","1" >>],
       [player |-> << "J","o","s","h"," ","A","l","l","e","n"," ","J","r","." >>,
        pos |-> << "W","R","1" >>],
       [player |-> << "B","r","e","e","c","e"," ","H","a","l","l" >>,
        pos |-> << "R","B","1" >>],
       [player |-> << "K","y","l","e"," ","P","i","t","t","s" >>,
        pos |-> << "T","E","1" >>],
       [player |-> << "B","i","l","l","s"," ","D","/","S","T" >>,
        pos |-> << "D","S","T","1" >>] >>

\* the texts typed for draft, mark-other and drop
Inputs ==
    << << "j","o","s","h"," ","a","l","l","e","n" >>,
       << "J","O","S","H"," ","A","L","L","E","N"," ","J","R","." >>,
       << "b","r","e","e","c","e"," ","h","a","l" >>,
       << " ","K","y","l","e"," ","P","i","t","t","s"," " >>,
       << "b","i","l","l","s" >>,
       << "j","o","s","h"," ","a","l","e","n" >>,
       << "z","z","z" >> >>

\* the names and typed texts whose lower-casing and matching are computed once
KnownStrings ==
    { RawPool[i].player : i \in 1..Len(RawPool) }
        \cup { Strip(Inputs[k]) : k \in 1..Len(Inputs) }

LowerTable ==
    [s \in KnownStrings |-> LowerOf(s)]

\* str.lower()
Lower(s) ==
    IF s \in KnownStrings THEN LowerTable[s] ELSE LowerOf(s)

\* The elements of a sequence
Range(s) ==
    { s[i] : i \in 1..Len(s) }

RECURSIVE Flatten(_)
Flatten(ss) ==
    IF ss = << >> THEN << >> ELSE Head(ss) \o Flatten(Tail(ss))

\* list.remove(x): the first occurrence of x removed (x is in the list)
RemoveFirst(s, x) ==
    LET i == CHOOSE k \in 1..Len(s) : s[k] = x /\ \A j \in 1..(k - 1) : s[j] # x
    IN  SubSeq(s, 1, i - 1) \o SubSeq(s, i + 1, Len(s))

\* list.pop(i), 1-based
RemoveAt(s, i) ==
    SubSeq(s, 1, i - 1) \o SubSeq(s, i + 1, Len(s))

----------------------------------------------------------------------------
(* Position and slot-type names                                            *)

QB == << "Q","B" >>
RB == << "R","B" >>
WR == << "W","R" >>
TE == << "T","E" >>
KK == << "K" >>
DST == << "D","/","S","T" >>
DSTAlias == << "D","S","T" >>
DAlias == << "D" >>
FLEX == << "F","L","E","X" >>
OP == << "O","P" >>
BENCH == << "B","E","N","C","H" >>
SUPERFLEX == << "S","U","P","E","R","F","L","E","X" >>
WR_TE == << "W","R","_","T","E" >>
RB_WR == << "R","B","_","W","R" >>
IR == << "I","R" >>

\* Python values a roster slot can hold: None, a str, or the occupant dict
None == [py |-> "None"]

PyStr(s) == [py |-> "str", s |-> s]

PyOccupant(name, position, pick, slot) ==
    [py |-> "dict", name |-> name, position |-> position, pick |-> pick, slot |-> slot]

----------------------------------------------------------------------------
(* RosterSlotManager                                                       *)

\* dict lookups on a roster-slot map kept as a sequence of [pos, count] items
ConfigHas(config, t) ==
    \E i \in 1..Len(config) : config[i].pos = t

ConfigGet(config, t) ==
    LET i == CHOOSE k \in 1..Len(config) : config[k].pos = t
    IN  config[i].count

ConfigGetDefault(config, t, d) ==
    IF ConfigHas(config, t) THEN ConfigGet(config, t) ELSE d

StartingSlotTypes == << QB, RB, WR, TE, FLEX, OP, KK, DST >>

\* the slot names one slot type contributes, every slot empty
TypeSlots(config, t) ==
    IF ConfigHas(config, t)
    THEN LET count == ConfigGet(config, t)
         IN  [i \in 1..count |->
                [slot |-> IF count > 1 THEN t \o IntToStr(i) ELSE t, player |-> None]]
    ELSE << >>

BenchSlots(config) ==
    IF ConfigHas(config, BENCH)
    THEN [i \in 1..ConfigGet(config, BENCH) |->
            [slot |-> BENCH \o IntToStr(i), player |-> None]]
    ELSE << >>

\* the roster dict, in insertion order, as a sequence of [slot, player] items
InitializeRoster(config) ==
    Flatten([k \in 1..Len(StartingSlotTypes) |-> TypeSlots(config, StartingSlotTypes[k])])
        \o BenchSlots(config)

\* slot_eligibility with the superflex slot listed ahead of the quarterback's own slot
SlotEligibility_OpFirst(position) ==
    IF position = QB THEN << OP, QB >>
    ELSE IF position = RB THEN << RB, FLEX, OP >>
    ELSE IF position = WR THEN << WR, FLEX, OP >>
    ELSE IF position = TE THEN << TE, FLEX, OP >>
    ELSE IF position = KK THEN << KK >>
    ELSE IF position = DST THEN << DST >>
    ELSE IF position = DAlias THEN << DST >>
    ELSE IF position = DSTAlias THEN << DST >>
    ELSE << >>

\* slot_eligibility.get(position, [])
SlotEligibility(position) ==
    IF position = QB THEN << QB, OP >>
    ELSE IF position = RB THEN << RB, FLEX, OP >>
    ELSE IF position = WR THEN << WR, FLEX, OP >>
    ELSE IF position = TE THEN << TE, FLEX, OP >>
    ELSE IF position = KK THEN << KK >>
    ELSE IF position = DST THEN << DST >>
    ELSE IF position = DAlias THEN << DST >>
    ELSE IF position = DSTAlias THEN << DST >>
    ELSE << >>

\* index of the first empty slot whose name starts with prefix, 0 if none
FirstEmptySlot(roster, prefix) ==
    LET hits == { i \in 1..Len(roster) :
                    StartsWith(roster[i].slot, prefix) /\ roster[i].player = None }
    IN  IF hits = {} THEN 0 ELSE CHOOSE i \in hits : \A j \in hits : i <= j

\* add_player without the bench fallback
AddPlayerIndex_NoBench(roster, position) ==
    LET elig == SlotEligibility(position)
        tries == { k \in 1..Len(elig) : FirstEmptySlot(roster, elig[k]) # 0 }
    IN  IF tries # {}
        THEN FirstEmptySlot(roster, elig[CHOOSE k \in tries : \A j \in tries : k <= j])
        ELSE 0

\* index of the slot add_player fills, 0 when it returns None
AddPlayerIndex(roster, position) ==
    LET elig == SlotEligibility(position)
        tries == { k \in 1..Len(elig) : FirstEmptySlot(roster, elig[k]) # 0 }
    IN  IF tries # {}
        THEN FirstEmptySlot(roster, elig[CHOOSE k \in tries : \A j \in tries : k <= j])
        ELSE FirstEmptySlot(roster, BENCH)

\* add_player: [slot, roster]; slot is None when no slot is available
AddPlayer(roster, name, position, pick) ==
    LET i == AddPlayerIndex(roster, position)
    IN  IF i = 0
        THEN [slot |-> None, roster |-> roster]
        ELSE [slot |-> PyStr(roster[i].slot),
              roster |-> [roster EXCEPT ![i].player =
                            PyOccupant(name, position, pick, roster[i].slot)]]

\* a slot lookup that never finds the key, so that nothing is cleared
ClearSlot_NeverFound(roster, slotName) ==
    roster

\* roster[slot_name] = None, when slot_name is a key of the roster
ClearSlot(roster, slotName) ==
    [i \in 1..Len(roster) |->
        IF roster[i].slot = slotName THEN [roster[i] EXCEPT !.player = None]
        ELSE roster[i]]

----------------------------------------------------------------------------
(* LeagueConfig (src/src/utils/league_config.py)                            *)

\* FlexPosition factory eligibility sets
FlexEligible(name) ==
    IF name = FLEX THEN {RB, WR, TE}
    ELSE IF name = SUPERFLEX THEN {QB, RB, WR, TE}
    ELSE IF name = OP THEN {QB, RB, WR, TE}
    ELSE IF name = WR_TE THEN {WR, TE}
    ELSE IF name = RB_WR THEN {RB, WR}
    ELSE {}

FlexNames == {FLEX, SUPERFLEX, OP, WR_TE, RB_WR}

\* _parse_flex_positions: the names of the flex slots configured with count > 0
ParseFlexPositions(config) ==
    { config[i].pos : i \in { k \in 1..Len(config) :
                                config[k].count > 0 /\ config[k].pos \in FlexNames } }

\* scoring_positions
ScoringPositions(config) ==
    { config[i].pos : i \in { k \in 1..Len(config) :
                                /\ config[k].count > 0
                                /\ config[k].pos \notin ({BENCH, IR} \cup FlexNames) } }

\* all_eligible_positions
AllEligiblePositions(config) ==
    ScoringPositions(config)
        \cup UNION { FlexEligible(f) : f \in ParseFlexPositions(config) }

LegacyPositions == {QB, RB, WR, TE, KK, DST}

\* get_eligible_positions: league is [num_teams, roster_slots, league_config]
EligiblePositions(league) ==
    IF league.league_config
    THEN AllEligiblePositions(league.roster_slots)
    ELSE LegacyPositions

\* position_exists_in_league
PositionExistsInLeague(league, position) ==
    position \in EligiblePositions(league)

----------------------------------------------------------------------------
(* Player pool (load_and_adjust_adp: position extraction and league filter) *)

\* df["pos"].str.extract(r"([A-Z]+)"): the first maximal run of capitals
RECURSIVE TakeUpper(_)
TakeUpper(s) ==
    IF s = << >> \/ Head(s) \notin Range(UpperChars) THEN << >>
    ELSE << Head(s) >> \o TakeUpper(Tail(s))

RECURSIVE ExtractPosition(_)
ExtractPosition(label) ==
    IF label = << >> THEN << >>
    ELSE IF Head(label) \in Range(UpperChars) THEN TakeUpper(label)
    ELSE ExtractPosition(Tail(label))

\* "D" and "DST" are standardized to "D/ST"
StandardizePosition(position) ==
    IF position \in {DAlias, DSTAlias} THEN DST ELSE position

RECURSIVE FilterRows(_, _)
FilterRows(rows, keep) ==
    IF rows = << >> THEN << >>
    ELSE IF Head(rows).position \in keep
         THEN << Head(rows) >> \o FilterRows(Tail(rows), keep)
         ELSE FilterRows(Tail(rows), keep)

\* self.players: rows [player, position] of the positions eligible in the league
LoadPlayers(league, rawRows) ==
    FilterRows([i \in 1..Len(rawRows) |->
                  [player |-> rawRows[i].player,
                   position |-> StandardizePosition(ExtractPosition(rawRows[i].pos))]],
               EligiblePositions(league))

----------------------------------------------------------------------------
(* difflib.get_close_matches                                                *)

\* length of the common run of a[i..ahi] and b[j..bhi] starting at i and j
RECURSIVE RunLen(_, _, _, _, _, _)
RunLen(a, b, i, j, ahi, bhi) ==
    IF i > ahi \/ j > bhi THEN 0
    ELSE IF a[i] # b[j] THEN 0
    ELSE 1 + RunLen(a, b, i + 1, j + 1, ahi, bhi)

\* the least element of a non-empty set of integers
Least(S) ==
    CHOOSE x \in S : \A y \in S : x <= y

\* the cells <<i, j>> at which the common run is at least k long
CellsWithRun(a, b, alo, ahi, blo, bhi, k) ==
    { c \in (alo..ahi) \X (blo..bhi) : RunLen(a, b, c[1], c[2], ahi, bhi) >= k }

\* the earliest cell, first in a then in b
EarliestCell(cells) ==
    << Least({ c[1] : c \in cells }),
       Least({ c[2] : c \in { h \in cells : h[1] = Least({ c[1] : c \in cells }) } }) >>

\* SequenceMatcher.find_longest_match: <<i, j, k>>, the longest common block of
\* a[alo..ahi] and b[blo..bhi], the earliest in a and then in b; k = 0 when none
RECURSIVE LongestMatchFrom(_, _, _, _, _, _, _)
LongestMatchFrom(a, b, alo, ahi, blo, bhi, k) ==
    IF CellsWithRun(a, b, alo, ahi, blo, bhi, k + 1) # {}
    THEN LongestMatchFrom(a, b, alo, ahi, blo, bhi, k + 1)
    ELSE IF k = 0 THEN << alo, blo, 0 >>
    ELSE EarliestCell(CellsWithRun(a, b, alo, ahi, blo, bhi, k)) \o << k >>

\* SequenceMatcher.get_matching_blocks, summed: the longest block, then the same to
\* its left and to its right
RECURSIVE MatchingChars(_, _, _, _, _, _)
RECURSIVE MatchingAround(_, _, _, _, _, _, _)
MatchingAround(a, b, alo, ahi, blo, bhi, m) ==
    IF m[3] = 0 THEN 0
    ELSE m[3]
           + MatchingChars(a, b, alo, m[1] - 1, blo, m[2] - 1)
           + MatchingChars(a, b, m[1] + m[3], ahi, m[2] + m[3], bhi)

MatchingChars(a, b, alo, ahi, blo, bhi) ==
    IF alo > ahi \/ blo > bhi THEN 0
    ELSE MatchingAround(a, b, alo, ahi, blo, bhi,
                        LongestMatchFrom(a, b, alo, ahi, blo, bhi, 0))

KnownLower ==
    { LowerOf(s) : s \in KnownStrings }

\* the matching characters of the known names and texts, computed once
MatchTable ==
    [a \in KnownLower |-> [b \in KnownLower |-> MatchingChars(a, b, 1, Len(a), 1, Len(b))]]

Matches(a, b) ==
    IF a \in KnownLower /\ b \in KnownLower
    THEN MatchTable[a][b]
    ELSE MatchingChars(a, b, 1, Len(a), 1, Len(b))

\* SequenceMatcher(None, a, b).ratio() >= num/den, ratio = 2.0 * M / T
RatioAtLeast(a, b, num, den) ==
    LET T == Len(a) + Len(b)
        M == Matches(a, b)
    IN  IF T = 0 THEN TRUE ELSE 2 * M * den >= num * T

\* get_close_matches(word, possibilities, n, cutoff): the indices of the
\* possibilities scoring at least the cutoff (seq1 is the possibility, seq2 the word)
CloseMatchIndices(word, possibilities, num, den) ==
    { i \in 1..Len(possibilities) : RatioAtLeast(possibilities[i], word, num, den) }

\* len(close_matches) for the matching indices hits: at most n are returned
CloseMatchCount(hits, n) ==
    IF Cardinality(hits) > n THEN n ELSE Cardinality(hits)

----------------------------------------------------------------------------
(* Name resolution (draft_player, _smart_fuzzy_match and its helpers)       *)

\* str.replace(old, ""), old not empty
RECURSIVE RemoveAll(_, _)
RemoveAll(s, old) ==
    IF Len(s) < Len(old) THEN s
    ELSE IF SubSeq(s, 1, Len(old)) = old
         THEN RemoveAll(SubSeq(s, Len(old) + 1, Len(s)), old)
         ELSE << Head(s) >> \o RemoveAll(Tail(s), old)

\* str.split(): the words between runs of blanks
RECURSIVE Split(_)
Split(s) ==
    IF s = << >> THEN << >>
    ELSE IF Head(s) = " " THEN Split(Tail(s))
    ELSE LET blanks == { i \in 1..Len(s) : s[i] = " " }
             n == IF blanks = {} THEN Len(s)
                  ELSE (CHOOSE i \in blanks : \A j \in blanks : i <= j) - 1
         IN  << SubSeq(s, 1, n) >> \o Split(SubSeq(s, n + 1, Len(s)))

KwDefense == << "d","e","f","e","n","s","e" >>
KwDst == << "d","s","t" >>
KwDSlashSt == << "d","/","s","t" >>
KwDef == << "d","e","f" >>

DefenseKeywords == {KwDefense, KwDst, KwDSlashSt, KwDef}

DefensePositions == {DAlias, DSTAlias, DST}

\* the words of one defense name once "defense", "dst" and "d/st" are removed
DefenseWords(name) ==
    { w \in Range(Split(RemoveAll(RemoveAll(RemoveAll(Lower(name), KwDefense), KwDst),
                                  KwDSlashSt))) : Len(w) > 2 }

\* the team identifiers taken from the defense names of the rows
DefenseTerms(defensePlayers) ==
    UNION { DefenseWords(defensePlayers[i].player) : i \in 1..Len(defensePlayers) }

\* the tail of _is_defense_search: a shared word, or a partial match of 4+ characters
MatchesDefenseTerm(searchTerm, defenseTerms) ==
    \/ \E w \in Range(Split(searchTerm)) : w \in defenseTerms
    \/ \E t \in defenseTerms :
         /\ Len(searchTerm) >= 4
         /\ (Contains(t, searchTerm) \/ Contains(searchTerm, t))

\* _is_defense_search(search_term, valid_players)
IsDefenseSearch(league, searchTerm, validPlayers) ==
    IF ~PositionExistsInLeague(league, DST) THEN FALSE
    ELSE IF \E kw \in DefenseKeywords : Contains(searchTerm, kw) THEN TRUE
    ELSE IF FilterRows(validPlayers, DefensePositions) = << >> THEN FALSE
    ELSE MatchesDefenseTerm(searchTerm,
                            DefenseTerms(FilterRows(validPlayers, DefensePositions)))

MinCommonChars == 3

\* _is_reasonable_match(search_term, matched_player)
IsReasonableMatch(league, searchTerm, row) ==
    IF ~PositionExistsInLeague(league, row.position) THEN FALSE
    ELSE IF IsDefenseSearch(league, Lower(searchTerm), << row >>)
         THEN row.position \in DefensePositions
         ELSE Cardinality(Range(Lower(searchTerm)) \cap Range(Lower(row.player)))
                >= MinCommonChars

\* the first row whose lower-cased name is the given one
FirstRowNamed(rows, lowerName) ==
    rows[Least({ i \in 1..Len(rows) : Lower(rows[i].player) = lowerName })]

LowerNames(rows) ==
    [i \in 1..Len(rows) |-> Lower(rows[i].player)]

DefenseMaxMatches == 3
DefenseCutoffTenths == 3
RegularMaxMatches == 5
RegularCutoffTenths == 6

Resolved(row) == [kind |-> "resolved", player |-> row.player, position |-> row.position]

Unresolved(kind) == [kind |-> kind, player |-> << >>, position |-> << >>]

\* the regular branch once the close matches are known: hits are their indices
RegularOutcome(league, playerName, validPlayers, hits) ==
    IF CloseMatchCount(hits, RegularMaxMatches) = 0 THEN Unresolved("not_found")
    ELSE IF CloseMatchCount(hits, RegularMaxMatches) = 1
    THEN IF IsReasonableMatch(league, playerName,
                              FirstRowNamed(validPlayers,
                                            Lower(validPlayers[Least(hits)].player)))
         THEN Resolved(FirstRowNamed(validPlayers,
                                     Lower(validPlayers[Least(hits)].player)))
         ELSE Unresolved("no_reasonable_match")
    ELSE Unresolved("ambiguous")

\* the regular branch of _smart_fuzzy_match: every name, cutoff 0.6, n = 5
RegularFuzzyMatch(league, playerName, validPlayers) ==
    RegularOutcome(league, playerName, validPlayers,
                   CloseMatchIndices(Lower(playerName), LowerNames(validPlayers),
                                     RegularCutoffTenths, 10))

\* the defense branch once the close matches are known
DefenseOutcome(league, playerName, validPlayers, defensePlayers, hits) ==
    IF defensePlayers # << >> /\ CloseMatchCount(hits, DefenseMaxMatches) = 1
    THEN Resolved(FirstRowNamed(defensePlayers,
                                Lower(defensePlayers[Least(hits)].player)))
    ELSE IF defensePlayers # << >> /\ CloseMatchCount(hits, DefenseMaxMatches) > 1
    THEN Unresolved("ambiguous")
    ELSE RegularFuzzyMatch(league, playerName, validPlayers)

\* the defense branch of _smart_fuzzy_match: defense names only, cutoff 0.3, n = 3
DefenseFuzzyMatch(league, playerName, validPlayers, defensePlayers) ==
    DefenseOutcome(league, playerName, validPlayers, defensePlayers,
                   CloseMatchIndices(Lower(playerName), LowerNames(defensePlayers),
                                     DefenseCutoffTenths, 10))

\* _smart_fuzzy_match(player_name, valid_players)
SmartFuzzyMatch(league, playerName, validPlayers) ==
    IF IsDefenseSearch(league, Lower(playerName), validPlayers)
    THEN IF ~PositionExistsInLeague(league, DST)
         THEN Unresolved("defense_not_in_league")
         ELSE DefenseFuzzyMatch(league, playerName, validPlayers,
                                FilterRows(validPlayers, DefensePositions))
    ELSE RegularFuzzyMatch(league, playerName, validPlayers)

\* every text goes to the fuzzy match, its exact namesake or not
ResolveAmong_FuzzyOnly(league, playerName, validPlayers) ==
    SmartFuzzyMatch(league, playerName, validPlayers)

\* the exact match on the lower-cased name first, the fuzzy match otherwise
ResolveAmong(league, playerName, validPlayers) ==
    IF \E i \in 1..Len(validPlayers) : Lower(validPlayers[i].player) = Lower(playerName)
    THEN Resolved(FirstRowNamed(validPlayers, Lower(playerName)))
    ELSE SmartFuzzyMatch(league, playerName, validPlayers)

\* draft_player up to the choice of player_matches
ResolveName(league, players, text) ==
    ResolveAmong(league, Strip(text), FilterRows(players, EligiblePositions(league)))

----------------------------------------------------------------------------
(* The leagues of the model                                                 *)

\* get_league_settings' default roster, used without a league configuration
DefaultRosterSlots ==
    << [pos |-> QB, count |-> 1], [pos |-> RB, count |-> 2], [pos |-> WR, count |-> 2],
       [pos |-> TE, count |-> 1], [pos |-> FLEX, count |-> 2], [pos |-> OP, count |-> 1],
       [pos |-> KK, count |-> 1], [pos |-> DST, count |-> 1], [pos |-> BENCH, count |-> 7] >>

\* a detected league small enough for its roster to fill: no QB, no K, no D/ST
SmallRosterSlots ==
    << [pos |-> FLEX, count |-> 1], [pos |-> BENCH, count |-> 1] >>

\* a detected two-team league of three rounds: its last two rounds start at pick 3
LateRosterSlots ==
    << [pos |-> QB, count |-> 1], [pos |-> KK, count |-> 1], [pos |-> DST, count |-> 1] >>

\* settings: league_config tells whether a LeagueConfig was detected; is_superflex is
\* the flag of the ESPN settings, and has_qb_flex for a detected league
Leagues ==
    << [num_teams |-> 10, roster_slots |-> DefaultRosterSlots, league_config |-> FALSE,
        is_superflex |-> TRUE],
       [num_teams |-> 2, roster_slots |-> SmallRosterSlots, league_config |-> TRUE,
        is_superflex |-> FALSE],
       [num_teams |-> 2, roster_slots |-> LateRosterSlots, league_config |-> TRUE,
        is_superflex |-> FALSE] >>

\* self.players of each league
PlayersTable ==
    [l \in 1..Len(Leagues) |-> LoadPlayers(Leagues[l], RawPool)]

\* ResolveName of every typed text in every league, computed once
ResolutionTable ==
    [l \in 1..Len(Leagues) |->
        [k \in 1..Len(Inputs) |-> ResolveName(Leagues[l], PlayersTable[l], Inputs[k])]]

----------------------------------------------------------------------------
(* Draft state and its operations.  A draft state st is the record          *)
(* [current_pick, drafted_players, my_team, roster] of the manager's fields *)
(* self.current_pick, self.drafted_players, self.my_team and                *)
(* self.roster_manager.roster.                                              *)

\* the fields __init__ sets before it tries to load a saved state
FreshState(l) ==
    [current_pick |-> 1,
     drafted_players |-> << >>,
     my_team |-> << >>,
     roster |-> InitializeRoster(Leagues[l].roster_slots)]

Outcome(ok, outcome, st) ==
    [ok |-> ok, outcome |-> outcome, st |-> st]

\* draft_player for "my_team" without the removal that undoes the append when the
\* roster is full
CommitMine_NoRollback(st, actual, position, added) ==
    IF added.slot = None
    THEN Outcome(FALSE, "roster_full",
                 [st EXCEPT !.drafted_players = Append(st.drafted_players, actual),
                            !.roster = added.roster])
    ELSE Outcome(TRUE, "drafted",
                 [current_pick |-> st.current_pick + 1,
                  drafted_players |-> Append(st.drafted_players, actual),
                  my_team |-> Append(st.my_team,
                                     [player |-> actual,
                                      position |-> position,
                                      pick |-> st.current_pick,
                                      slot |-> added.slot.s]),
                  roster |-> added.roster])

\* draft_player for "my_team" once the roster manager has answered
CommitMine(st, actual, position, added) ==
    IF added.slot = None
    THEN Outcome(FALSE, "roster_full",
                 [st EXCEPT !.drafted_players =
                               RemoveFirst(Append(st.drafted_players, actual), actual),
                            !.roster = added.roster])
    ELSE Outcome(TRUE, "drafted",
                 [current_pick |-> st.current_pick + 1,
                  drafted_players |-> Append(st.drafted_players, actual),
                  my_team |-> Append(st.my_team,
                                     [player |-> actual,
                                      position |-> position,
                                      pick |-> st.current_pick,
                                      slot |-> added.slot.s]),
                  roster |-> added.roster])

\* draft_player without the already-drafted check
CommitPick_NoDraftedCheck(league, st, r, team) ==
    IF r.kind # "resolved" THEN Outcome(FALSE, r.kind, st)
    ELSE IF ~PositionExistsInLeague(league, r.position)
    THEN Outcome(FALSE, "position_not_in_league", st)
    ELSE IF team = "my_team"
    THEN CommitMine(st, r.player, StandardizePosition(r.position),
                    AddPlayer(st.roster, r.player, StandardizePosition(r.position),
                              st.current_pick))
    ELSE Outcome(TRUE, "drafted_by_other",
                 [st EXCEPT !.drafted_players = Append(st.drafted_players, r.player),
                            !.current_pick = st.current_pick + 1])

\* draft_player advancing the pick counter before the name is resolved
CommitPick_CountsRejected(league, st, r, team) ==
    IF r.kind # "resolved"
    THEN Outcome(FALSE, r.kind, [st EXCEPT !.current_pick = st.current_pick + 1])
    ELSE IF ~PositionExistsInLeague(league, r.position)
    THEN Outcome(FALSE, "position_not_in_league", st)
    ELSE IF r.player \in Range(st.drafted_players)
    THEN Outcome(FALSE, "already_drafted", st)
    ELSE IF team = "my_team"
    THEN CommitMine(st, r.player, StandardizePosition(r.position),
                    AddPlayer(st.roster, r.player, StandardizePosition(r.position),
                              st.current_pick))
    ELSE Outcome(TRUE, "drafted_by_other",
                 [st EXCEPT !.drafted_players = Append(st.drafted_players, r.player),
                            !.current_pick = st.current_pick + 1])

\* draft_player from the resolution r of the typed name on
CommitPick(league, st, r, team) ==
    IF r.kind # "resolved" THEN Outcome(FALSE, r.kind, st)
    ELSE IF ~PositionExistsInLeague(league, r.position)
    THEN Outcome(FALSE, "position_not_in_league", st)
    ELSE IF r.player \in Range(st.drafted_players)
    THEN Outcome(FALSE, "already_drafted", st)
    ELSE IF team = "my_team"
    THEN CommitMine(st, r.player, StandardizePosition(r.position),
                    AddPlayer(st.roster, r.player, StandardizePosition(r.position),
                              st.current_pick))
    ELSE Outcome(TRUE, "drafted_by_other",
                 [st EXCEPT !.drafted_players = Append(st.drafted_players, r.player),
                            !.current_pick = st.current_pick + 1])

\* draft_player(Inputs[k], team) in league l: [ok, outcome, st]
DraftPlayer(l, st, k, team) ==
    CommitPick(Leagues[l], st, ResolutionTable[l][k], team)

\* the shared tail without the removal from drafted_players
RemoveTeamEntry_KeepsDraftedName(st, idx) ==
    LET entry == st.my_team[idx]
    IN  [st EXCEPT
           !.roster = IF entry.slot # << >> THEN ClearSlot(st.roster, entry.slot)
                      ELSE st.roster,
           !.my_team = RemoveAt(st.my_team, idx)]

\* the shared tail of drop_player and undo_last_pick: free the entry's slot, pop the
\* entry, take its name out of drafted_players
RemoveTeamEntry(st, idx) ==
    LET entry == st.my_team[idx]
    IN  [st EXCEPT
           !.roster = IF entry.slot # << >> THEN ClearSlot(st.roster, entry.slot)
                      ELSE st.roster,
           !.my_team = RemoveAt(st.my_team, idx),
           !.drafted_players = IF entry.player \in Range(st.drafted_players)
                               THEN RemoveFirst(st.drafted_players, entry.player)
                               ELSE st.drafted_players]

\* undo_last_pick without the decrement of current_pick
UndoLastPick_KeepsPickNumber(st) ==
    IF st.my_team = << >> THEN Outcome(FALSE, "no_picks", st)
    ELSE IF st.my_team[Len(st.my_team)].pick # st.current_pick - 1
    THEN Outcome(FALSE, "not_most_recent", st)
    ELSE Outcome(TRUE, "undone", RemoveTeamEntry(st, Len(st.my_team)))

\* undo_last_pick without the test that the last own pick is the most recent pick
UndoLastPick_AnyOwnPick(st) ==
    IF st.my_team = << >> THEN Outcome(FALSE, "no_picks", st)
    ELSE Outcome(TRUE, "undone",
                 [RemoveTeamEntry(st, Len(st.my_team)) EXCEPT
                    !.current_pick = st.current_pick - 1])

\* undo_last_pick that pops the first entry of my_team instead of the last
UndoLastPick_PopsFirstEntry(st) ==
    IF st.my_team = << >> THEN Outcome(FALSE, "no_picks", st)
    ELSE IF st.my_team[Len(st.my_team)].pick # st.current_pick - 1
    THEN Outcome(FALSE, "not_most_recent", st)
    ELSE Outcome(TRUE, "undone",
                 [RemoveTeamEntry(st, 1) EXCEPT !.current_pick = st.current_pick - 1])

\* undo_last_pick()
UndoLastPick(st) ==
    IF st.my_team = << >> THEN Outcome(FALSE, "no_picks", st)
    ELSE IF st.my_team[Len(st.my_team)].pick # st.current_pick - 1
    THEN Outcome(FALSE, "not_most_recent", st)
    ELSE Outcome(TRUE, "undone",
                 [RemoveTeamEntry(st, Len(st.my_team)) EXCEPT
                    !.current_pick = st.current_pick - 1])

DropMaxMatches == 3
DropCutoffTenths == 6

\* drop_player once the close matches among the team's names are known
DropMatched(st, teamNames, hits) ==
    IF CloseMatchCount(hits, DropMaxMatches) = 0 THEN Outcome(FALSE, "not_on_team", st)
    ELSE IF CloseMatchCount(hits, DropMaxMatches) = 1
    THEN Outcome(TRUE, "dropped",
                 RemoveTeamEntry(st, Least({ i \in 1..Len(teamNames) :
                                               teamNames[i] = teamNames[Least(hits)] })))
    ELSE Outcome(FALSE, "ambiguous", st)

\* drop_player with the lower-cased names at hand: the exact match first
DropNamed(st, nameLower, teamNames) ==
    IF \E i \in 1..Len(teamNames) : teamNames[i] = nameLower
    THEN Outcome(TRUE, "dropped",
                 RemoveTeamEntry(st, Least({ i \in 1..Len(teamNames) :
                                               teamNames[i] = nameLower })))
    ELSE DropMatched(st, teamNames,
                     CloseMatchIndices(nameLower, teamNames, DropCutoffTenths, 10))

\* drop_player that also takes the pick number back, as undo_last_pick does
DropPlayer_RenumbersPicks(st, text) ==
    LET r == DropNamed(st, Lower(Strip(text)),
                       [i \in 1..Len(st.my_team) |-> Lower(st.my_team[i].player)])
    IN  IF r.ok
        THEN Outcome(TRUE, r.outcome, [r.st EXCEPT !.current_pick = st.current_pick - 1])
        ELSE r

\* drop_player(text)
DropPlayer(st, text) ==
    DropNamed(st, Lower(Strip(text)),
              [i \in 1..Len(st.my_team) |-> Lower(st.my_team[i].player)])

----------------------------------------------------------------------------
(* Persistence: json.dump and json.load of the state file                   *)

JNull == [json |-> "null"]

JStr(s) == [json |-> "string", s |-> s]

JNum(n) == [json |-> "number", n |-> n]

JArr(items) == [json |-> "array", items |-> items]

JObj(members) == [json |-> "object", members |-> members]

Member(key, value) == [key |-> key, value |-> value]

\* obj[key] on a parsed JSON object
JGet(obj, key) ==
    LET i == CHOOSE k \in 1..Len(obj.members) : obj.members[k].key = key
    IN  obj.members[i].value

NoFile == [json |-> "absent"]

\* a file whose json.dump was cut short by an exception: not a JSON document
Truncated == [json |-> "truncated"]

\* json.dump of a roster value: None is written as null
DumpSlotValue(v) ==
    IF v.py = "None" THEN JNull
    ELSE IF v.py = "str" THEN JStr(v.s)
    ELSE JObj(<< Member("name", JStr(v.name)),
                 Member("position", JStr(v.position)),
                 Member("pick", JNum(v.pick)),
                 Member("slot", JStr(v.slot)) >>)

DumpTeamEntry(e) ==
    JObj(<< Member("player", JStr(e.player)),
            Member("position", JStr(e.position)),
            Member("pick", JNum(e.pick)),
            Member("slot", JStr(e.slot)) >>)

\* the roster written without its empty slots
DumpRoster_SkipsEmpty(roster) ==
    JObj([i \in 1..Len(SelectSeq(roster, LAMBDA item : item.player # None)) |->
            Member(SelectSeq(roster, LAMBDA item : item.player # None)[i].slot,
                   DumpSlotValue(SelectSeq(roster, LAMBDA item : item.player # None)[i].player))])

DumpRoster(roster) ==
    JObj([i \in 1..Len(roster) |-> Member(roster[i].slot, DumpSlotValue(roster[i].player))])

DumpRosterConfig(config) ==
    JObj([i \in 1..Len(config) |-> Member(config[i].pos, JNum(config[i].count))])

\* save_draft_state: the document written to the state file.  The clock text of
\* "timestamp" and the members of "league_info" are never read back and are left out.
SaveDraftState(l, st) ==
    JObj(<< Member("timestamp", JStr(<< >>)),
            Member("league_info", JObj(<< >>)),
            Member("draft_progress",
                   JObj(<< Member("current_pick", JNum(st.current_pick)),
                           Member("drafted_players",
                                  JArr([i \in 1..Len(st.drafted_players) |->
                                          JStr(st.drafted_players[i])])),
                           Member("my_team",
                                  JArr([i \in 1..Len(st.my_team) |->
                                          DumpTeamEntry(st.my_team[i])])) >>)),
            Member("roster_state",
                   JObj(<< Member("roster", DumpRoster(st.roster)),
                           Member("roster_config",
                                  DumpRosterConfig(Leagues[l].roster_slots)) >>)) >>)

\* json.load of a roster value
LoadSlotValue(j) ==
    IF j.json = "null" THEN None
    ELSE IF j.json = "string" THEN PyStr(j.s)
    ELSE PyOccupant(JGet(j, "name").s, JGet(j, "position").s,
                    JGet(j, "pick").n, JGet(j, "slot").s)

LoadTeamEntry(j) ==
    [player |-> JGet(j, "player").s,
     position |-> JGet(j, "position").s,
     pick |-> JGet(j, "pick").n,
     slot |-> JGet(j, "slot").s]

NullText == << "n","u","l","l" >>
NoneText == << "N","o","n","e" >>

\* the loop of load_draft_state that turns the strings "null" and "None" into None
NoneStringsToNone(roster) ==
    [i \in 1..Len(roster) |->
        IF roster[i].player \in {PyStr(NullText), PyStr(NoneText)}
        THEN [roster[i] EXCEPT !.player = None]
        ELSE roster[i]]

\* load_draft_state: [ok, outcome, st]
LoadDraftState(st, file) ==
    IF file = NoFile THEN Outcome(FALSE, "starting_fresh", st)
    ELSE IF file = Truncated THEN Outcome(FALSE, "load_failed", st)
    ELSE
      LET progress == JGet(file, "draft_progress")
          saved == JGet(JGet(file, "roster_state"), "roster").members
      IN  Outcome(TRUE, "loaded",
                  [current_pick |-> JGet(progress, "current_pick").n,
                   drafted_players |->
                       [i \in 1..Len(JGet(progress, "drafted_players").items) |->
                          JGet(progress, "drafted_players").items[i].s],
                   my_team |->
                       [i \in 1..Len(JGet(progress, "my_team").items) |->
                          LoadTeamEntry(JGet(progress, "my_team").items[i])],
                   roster |->
                       NoneStringsToNone([i \in 1..Len(saved) |->
                                            [slot |-> saved[i].key,
                                             player |-> LoadSlotValue(saved[i].value)]])])

----------------------------------------------------------------------------
(* Recommendations (load_and_adjust_adp's ranking columns, the scores and   *)
(* get_draft_recommendation).  Scores are kept in tenths, totals before     *)
(* rounding in hundredths.                                                  *)

\* the rows of a ranking file: player, POS label and the ESPN rank
RankedPool ==
    << [player |-> << "B","r","e","e","c","e"," ","H","a","l","l" >>,
        pos |-> << "R","B","1" >>, espn |-> 12],
       [player |-> << "J","o","s","h"," ","A","l","l","e","n" >>,
        pos |-> << "Q","B","1" >>, espn |-> 25],
       [player |-> << "J","o","e"," ","B","u","r","r","o","w" >>,
        pos |-> << "Q","B","2" >>, espn |-> 60],
       [player |-> << "K","y","l","e"," ","P","i","t","t","s" >>,
        pos |-> << "T","E","1" >>, espn |-> 90],
       [player |-> << "B","i","l","l","s"," ","D","/","S","T" >>,
        pos |-> << "D","S","T","1" >>, espn |-> 130],
       [player |-> << "J","a","k","e"," ","B","a","t","e","s" >>,
        pos |-> << "K","1" >>, espn |-> 140],
       [player |-> << "C","a","m"," ","L","i","t","t","l","e" >>,
        pos |-> << "K","2" >>, espn |-> 150],
       [player |-> << "W","i","l","l"," ","L","u","t","z" >>,
        pos |-> << "K","3" >>, espn |-> 160],
       [player |-> << "W","i","l","l"," ","R","e","i","c","h","a","r","d" >>,
        pos |-> << "K","4" >>, espn |-> 170] >>

\* self.league_config and self.league_config.has_qb_flex
HasQbFlex(league) ==
    league.league_config /\ (ParseFlexPositions(league.roster_slots) \cap {SUPERFLEX, OP}) # {}

\* get_qb_value_multiplier() > 1.0
QbValueRaised(league) ==
    IF league.league_config THEN HasQbFlex(league) ELSE league.is_superflex

Smaller(a, b) == IF a <= b THEN a ELSE b

Larger(a, b) == IF a >= b THEN a ELSE b

\* new_adp of a QB in tenths for a raised QB value: 0.3, 0.5 or 0.7 of the rank
ScaledQbAdp(espn) ==
    IF espn <= 50 THEN 3 * espn
    ELSE IF espn <= 80 THEN 5 * espn
    ELSE 7 * espn

\* adjust_league_aware_adp(row), in tenths
AdjustLeagueAwareAdp(league, position, espn) ==
    IF position \notin EligiblePositions(league) THEN 9990
    ELSE IF position # QB
    THEN 10 * espn + (IF QbValueRaised(league) THEN 50 ELSE 0)
    ELSE IF QbValueRaised(league)
    THEN Larger(10, Smaller(ScaledQbAdp(espn), 10 * espn))
    ELSE Larger(10, 10 * espn)

\* the rank of row i among the rows of its position, by adjusted ADP
PositionRank(rows, i) ==
    1 + Cardinality({ j \in 1..Len(rows) :
                        /\ rows[j].position = rows[i].position
                        /\ \/ rows[j].adp < rows[i].adp
                           \/ rows[j].adp = rows[i].adp /\ j < i })

\* assign_tiers: the tier of a positional rank
TierOfRank(rank) ==
    IF rank <= 4 THEN 1
    ELSE IF rank <= 10 THEN 2
    ELSE IF rank <= 20 THEN 3
    ELSE IF rank <= 35 THEN 4
    ELSE 5

\* the place of row i once the rows are sorted by adjusted ADP
AdpPlace(rows, i) ==
    1 + Cardinality({ j \in 1..Len(rows) :
                        \/ rows[j].adp < rows[i].adp
                        \/ rows[j].adp = rows[i].adp /\ j < i })

\* df.sort_values("adp_superflex") with the tier column added
TieredAndSorted(rows) ==
    [p \in 1..Len(rows) |->
        [player |-> rows[CHOOSE i \in 1..Len(rows) : AdpPlace(rows, i) = p].player,
         position |-> rows[CHOOSE i \in 1..Len(rows) : AdpPlace(rows, i) = p].position,
         adp |-> rows[CHOOSE i \in 1..Len(rows) : AdpPlace(rows, i) = p].adp,
         tier |-> TierOfRank(PositionRank(rows,
                                 CHOOSE i \in 1..Len(rows) : AdpPlace(rows, i) = p))]]

\* load_and_adjust_adp: rows [player, position, adp, tier] of the league's positions
LoadRanked(league, rawRows) ==
    TieredAndSorted(
        FilterRows([i \in 1..Len(rawRows) |->
                      [player |-> rawRows[i].player,
                       position |-> StandardizePosition(ExtractPosition(rawRows[i].pos)),
                       adp |-> AdjustLeagueAwareAdp(
                                   league,
                                   StandardizePosition(ExtractPosition(rawRows[i].pos)),
                                   rawRows[i].espn)]],
                   EligiblePositions(league)))

\* self.players of each league for the ranking file
RankedTable ==
    [l \in 1..Len(Leagues) |-> LoadRanked(Leagues[l], RankedPool)]

RECURSIVE SumCounts(_)
SumCounts(config) ==
    IF config = << >> THEN 0 ELSE Head(config).count + SumCounts(Tail(config))

\* get_current_round
CurrentRound(league, st) ==
    ((st.current_pick - 1) \div league.num_teams) + 1

\* get_total_rounds
TotalRounds(league) ==
    SumCounts(league.roster_slots)

\* late rounds that begin with the last round only
IsLateRound_LastRoundOnly(league, st) ==
    CurrentRound(league, st) >= TotalRounds(league)

\* is_late_round
IsLateRound(league, st) ==
    CurrentRound(league, st) >= TotalRounds(league) - 1

\* should_defer_position
ShouldDeferPosition(league, st, position) ==
    IF ~league.league_config
    THEN position \in {KK, DST} /\ ~IsLateRound(league, st)
    ELSE IF position \notin AllEligiblePositions(league.roster_slots) THEN TRUE
    ELSE position \in {KK, DST} /\ ~IsLateRound(league, st)

\* get_available_players
AvailablePlayers(league, st, players) ==
    SelectSeq(players, LAMBDA row : /\ row.player \notin Range(st.drafted_players)
                                    /\ row.position \in EligiblePositions(league))

\* the slot names of the given roster entries, in their order
EntrySlots(entries) ==
    [i \in 1..Len(entries) |-> entries[i].slot]

\* get_needs_analysis()["critical"]: the empty slots that are neither bench nor flex
CriticalNeeds(roster) ==
    EntrySlots(SelectSeq(roster,
                        LAMBDA entry : /\ entry.player = None
                                       /\ ~StartsWith(entry.slot, BENCH)
                                       /\ ~StartsWith(entry.slot, FLEX)
                                       /\ ~StartsWith(entry.slot, OP)))

\* get_needs_analysis()["important"]: the empty FLEX and OP slots
ImportantNeeds(roster) ==
    EntrySlots(SelectSeq(roster,
                        LAMBDA entry : /\ entry.player = None
                                       /\ ~StartsWith(entry.slot, BENCH)
                                       /\ (StartsWith(entry.slot, FLEX)
                                              \/ StartsWith(entry.slot, OP))))

\* get_position_summary()[position]["total"], 0 for a position it does not list
PositionTotal(roster, position) ==
    IF position \notin {QB, RB, WR, TE, KK, DST} THEN 0
    ELSE Cardinality({ i \in 1..Len(roster) :
                         /\ roster[i].player # None
                         /\ StandardizePosition(roster[i].player.position) = position })

\* slot.replace("1", "").replace("2", "").replace("3", "")
SlotBase(slot) ==
    RemoveAll(RemoveAll(RemoveAll(slot, << "1" >>), << "2" >>), << "3" >>)

\* position_targets.get(position, 0) of calculate_team_need_score
NeedTarget(league, position) ==
    IF position = QB THEN (IF HasQbFlex(league) THEN 3 ELSE 2)
    ELSE IF position = RB THEN 6
    ELSE IF position = WR THEN 7
    ELSE IF position = TE THEN 2
    ELSE IF position = KK THEN (IF PositionExistsInLeague(league, KK) THEN 1 ELSE 0)
    ELSE IF position \in DefensePositions
    THEN (IF PositionExistsInLeague(league, DST) THEN 1 ELSE 0)
    ELSE 0

\* the tail of calculate_team_need_score: position caps and depth need
DepthNeed(target, total) ==
    IF target = 0 \/ total >= target THEN 0
    ELSE Smaller(5, (target - total) * 2)

\* calculate_team_need_score with an empty FLEX slot counted for quarterbacks too
TeamNeedScore_FlexForQuarterbacks(league, st, position) ==
    IF ~PositionExistsInLeague(league, position) THEN -100
    ELSE IF ShouldDeferPosition(league, st, position) THEN -50
    ELSE IF \E c \in Range(CriticalNeeds(st.roster)) :
              \/ SlotBase(c) = position
              \/ position \in DefensePositions /\ StartsWith(c, DST)
    THEN 20
    ELSE IF /\ position \in {RB, WR, TE, QB}
            /\ ImportantNeeds(st.roster) # << >>
    THEN 10
    ELSE DepthNeed(NeedTarget(league, position),
                   PositionTotal(st.roster, StandardizePosition(position)))

\* calculate_team_need_score (a whole number)
TeamNeedScore(league, st, position) ==
    IF ~PositionExistsInLeague(league, position) THEN -100
    ELSE IF ShouldDeferPosition(league, st, position) THEN -50
    ELSE IF \E c \in Range(CriticalNeeds(st.roster)) :
              \/ SlotBase(c) = position
              \/ position \in DefensePositions /\ StartsWith(c, DST)
    THEN 20
    ELSE IF /\ position \in {RB, WR, TE, QB}
            /\ \E s \in Range(ImportantNeeds(st.roster)) :
                  \/ StartsWith(s, FLEX) /\ position \in {RB, WR, TE}
                  \/ StartsWith(s, OP)
    THEN 10
    ELSE DepthNeed(NeedTarget(league, position),
                   PositionTotal(st.roster, StandardizePosition(position)))

\* how many available rows have the position
AvailableAt(league, st, players, position) ==
    Len(SelectSeq(AvailablePlayers(league, st, players),
                  LAMBDA row : row.position = position))

\* scarcity_bonus of calculate_value_score
ScarcityBonus(league, st, players, position) ==
    IF position = QB /\ AvailableAt(league, st, players, position) < 15
    THEN (IF QbValueRaised(league) THEN 15 ELSE 10)
    ELSE IF position = RB /\ AvailableAt(league, st, players, position) < 20
    THEN 5
    ELSE IF position \in {KK, DST} /\ ~PositionExistsInLeague(league, position)
    THEN -20
    ELSE 0

\* calculate_value_score, in tenths
ValueScore(league, st, players, row) ==
    10 * st.current_pick - row.adp + 10 * ((6 - row.tier) * 2)
        + 10 * ScarcityBonus(league, st, players, row.position)

\* critical_skill_needs is not empty
HasCriticalSkillNeeds(league, st) ==
    IF ~IsLateRound(league, st)
    THEN \E c \in Range(CriticalNeeds(st.roster)) :
            ~ShouldDeferPosition(league, st, SlotBase(c))
    ELSE CriticalNeeds(st.roster) # << >>

\* total_score before rounding, in hundredths
TotalScore(league, st, value, need) ==
    IF HasCriticalSkillNeeds(league, st)
    THEN 4 * value + 6 * (10 * need)
    ELSE 6 * value + 4 * (10 * need)

\* round(x, 1) of a value in hundredths, in tenths; the weighted sums are even
\* numbers of hundredths, so that no value lies halfway
RoundToTenths(hundredths) ==
    (hundredths + 5) \div 10

\* the dict appended to recommendations: scores in tenths
ScoredEntry(league, st, row, value, need) ==
    [player |-> row.player,
     position |-> row.position,
     value_score |-> value,
     need_score |-> 10 * need,
     total_score |-> RoundToTenths(TotalScore(league, st, value, need))]

\* one pass of the loop over the available rows
Recommendation(league, st, players, row) ==
    ScoredEntry(league, st, row, ValueScore(league, st, players, row),
                TeamNeedScore(league, st, row.position))

\* the rows get_draft_recommendation scores: available, eligible, and before the last
\* two rounds without the deferred positions
Candidates(league, st, players) ==
    SelectSeq(AvailablePlayers(league, st, players),
              LAMBDA row : \/ IsLateRound(league, st)
                           \/ ~ShouldDeferPosition(league, st, row.position))

\* the place of entry i once the entries are sorted by total_score, highest first;
\* the sort leaves the order of equal scores open: ties keeps or reverses it
ScorePlace(recs, i, ties) ==
    1 + Cardinality({ j \in 1..Len(recs) :
                        \/ recs[j].total_score > recs[i].total_score
                        \/ /\ recs[j].total_score = recs[i].total_score
                           /\ IF ties = "kept" THEN j < i ELSE j > i })

\* df_rec.sort_values("total_score", ascending=False)
SortByTotalScore(recs, ties) ==
    [p \in 1..Len(recs) |-> recs[CHOOSE i \in 1..Len(recs) : ScorePlace(recs, i, ties) = p]]

\* saturated_positions of _balance_position_recommendations
SaturatedPositions(league, st) ==
    { pos \in {QB, RB, WR, TE, KK, DST} :
        \/ NeedTarget(league, pos) = 0
        \/ PositionTotal(st.roster, pos) >= NeedTarget(league, pos) }

\* max_saturated_recs
MaxSaturatedRecs(st) ==
    IF CriticalNeeds(st.roster) # << >> THEN 1 ELSE 2

\* how many entries of a list have the position, defense aliases counted as D/ST
ShownAt(list, pos) ==
    Len(SelectSeq(list, LAMBDA rec : StandardizePosition(rec.position) = pos))

\* the loop of _balance_position_recommendations over the sorted entries from i on
RECURSIVE BalanceFrom(_, _, _, _, _, _)
BalanceFrom(recs, i, saturated, maxSaturated, n, balanced) ==
    IF i > Len(recs) THEN balanced
    ELSE IF /\ StandardizePosition(recs[i].position) \in saturated
            /\ ShownAt(balanced, StandardizePosition(recs[i].position)) >= maxSaturated
    THEN BalanceFrom(recs, i + 1, saturated, maxSaturated, n, balanced)
    ELSE IF Len(balanced) + 1 >= n THEN Append(balanced, recs[i])
    ELSE BalanceFrom(recs, i + 1, saturated, maxSaturated, n, Append(balanced, recs[i]))

\* the list cut to its first n entries, no position limited
BalancePositionRecommendations_NoLimit(league, st, recs, n) ==
    SubSeq(recs, 1, Smaller(n, Len(recs)))

\* _balance_position_recommendations
BalancePositionRecommendations(league, st, recs, n) ==
    IF recs = << >> THEN recs
    ELSE BalanceFrom(recs, 1, SaturatedPositions(league, st), MaxSaturatedRecs(st), n, << >>)

\* the scored and sorted entries
ScoredCandidates(league, st, players, candidates, ties) ==
    SortByTotalScore([i \in 1..Len(candidates) |->
                        Recommendation(league, st, players, candidates[i])], ties)

\* the end of get_draft_recommendation(n) once the entries are scored and sorted:
\* [raised, recs]. With players available but every one of them deferred,
\* sort_values finds no "total_score" column and raises KeyError.
BalancedAnswer(league, st, players, n, scored) ==
    IF AvailablePlayers(league, st, players) = << >>
    THEN [raised |-> FALSE, recs |-> << >>]
    ELSE IF scored = << >>
    THEN [raised |-> TRUE, recs |-> << >>]
    ELSE [raised |-> FALSE,
          recs |-> BalancePositionRecommendations(league, st, scored, n)]

\* get_draft_recommendation(n)
GetDraftRecommendation(league, st, players, n, ties) ==
    BalancedAnswer(league, st, players, n,
                   ScoredCandidates(league, st, players,
                                    Candidates(league, st, players), ties))

----------------------------------------------------------------------------
(* The backup directory                                                     *)

\* draft_backup_<%Y%m%d_%H%M%S>.json: one name per second of the clock; a file written
\* in second s carries s as its modification time
BackupFile(second, content) ==
    [name |-> second, mtime |-> second, content |-> content]

\* open(backup_file, "w") and json.dump: a file of the same name is replaced
WriteBackup(dir, second, content) ==
    { f \in dir : f.name # second } \cup { BackupFile(second, content) }

\* backup_files.sort(key=st_mtime, reverse=True)
SortByMtimeDesc(dir) ==
    [i \in 1..Cardinality(dir) |->
        CHOOSE f \in dir : Cardinality({ g \in dir : g.mtime > f.mtime }) = i - 1]

\* backup_files[10:]
KeepBackups == 10

\* the directory after old_file.unlink() for every file of sorted[KeepBackups:]
Unlinked(dir, sorted) ==
    dir \ { sorted[i] : i \in (KeepBackups + 1)..Len(sorted) }

\* how many files the loop of _cleanup_old_backups unlinks
UnlinkCalls(dir) ==
    Cardinality({ i \in 1..Cardinality(dir) : i > KeepBackups })

\* a cleanup that sorts oldest first and so unlinks the newest files
CleanupOldBackups_KeepsOldest(dir) ==
    { f \in dir : Cardinality({ g \in dir : g.mtime < f.mtime }) < KeepBackups }

\* _cleanup_old_backups
CleanupOldBackups(dir) ==
    Unlinked(dir, SortByMtimeDesc(dir))

\* where a save stops: nowhere, or at the exception raised by one of its four writes
Completed == "completed"
SaveFaults == {"open_state_file", "dump_state_file", "open_backup", "dump_backup"}

\* a save that opens both files for writing before it dumps the snapshot to either
SaveFiles_OpensBothFirst(doc, primary, dir, second, fault) ==
    IF fault = "open_state_file"
    THEN [state_file |-> primary, backups |-> dir]
    ELSE IF fault = "dump_state_file"
    THEN [state_file |-> Truncated, backups |-> WriteBackup(dir, second, Truncated)]
    ELSE IF fault = "open_backup"
    THEN [state_file |-> Truncated, backups |-> dir]
    ELSE IF fault = "dump_backup"
    THEN [state_file |-> doc, backups |-> WriteBackup(dir, second, Truncated)]
    ELSE [state_file |-> doc,
          backups |-> CleanupOldBackups(WriteBackup(dir, second, doc))]

\* the try block of save_draft_state: [state_file, backups] as it leaves the disk.
\* An open(..., "w") that raises leaves the file alone; a json.dump that raises leaves
\* it truncated; the exception skips the rest of the block, cleanup included.
SaveFiles(doc, primary, dir, second, fault) ==
    IF fault = "open_state_file"
    THEN [state_file |-> primary, backups |-> dir]
    ELSE IF fault = "dump_state_file"
    THEN [state_file |-> Truncated, backups |-> dir]
    ELSE IF fault = "open_backup"
    THEN [state_file |-> doc, backups |-> dir]
    ELSE IF fault = "dump_backup"
    THEN [state_file |-> doc, backups |-> WriteBackup(dir, second, Truncated)]
    ELSE [state_file |-> doc,
          backups |-> CleanupOldBackups(WriteBackup(dir, second, doc))]

\* backup_files[:5]
ShownBackups == 5

Cancel == << "c","a","n","c","e","l" >>

\* what the operator types at "Enter backup number (1-5) or 'cancel'"
BackupChoices ==
    << Cancel, << "1" >>, << "2" >>, << "3" >>, << "6" >>, << "0" >>, << "x" >> >>

\* int(choice) for an unsigned decimal text, -1 for the texts int() refuses
ToInt(text) ==
    IF text = << >> \/ \E i \in 1..Len(text) : text[i] \notin Range(DigitChars)
    THEN -1
    ELSE LET RECURSIVE Value(_)
             Value(n) ==
                 IF n = 0 THEN 0
                 ELSE 10 * Value(n - 1)
                        + ((CHOOSE d \in 1..Len(DigitChars) : DigitChars[d] = text[n]) - 1)
         IN  Value(Len(text))

\* the four assignments of load_from_backup; the strings "null" and "None" stay strings
RestoreBackup(file) ==
    [current_pick |-> JGet(JGet(file, "draft_progress"), "current_pick").n,
     drafted_players |->
         [i \in 1..Len(JGet(JGet(file, "draft_progress"), "drafted_players").items) |->
            JGet(JGet(file, "draft_progress"), "drafted_players").items[i].s],
     my_team |->
         [i \in 1..Len(JGet(JGet(file, "draft_progress"), "my_team").items) |->
            LoadTeamEntry(JGet(JGet(file, "draft_progress"), "my_team").items[i])],
     roster |->
         [i \in 1..Len(JGet(JGet(file, "roster_state"), "roster").members) |->
            [slot |-> JGet(JGet(file, "roster_state"), "roster").members[i].key,
             player |-> LoadSlotValue(
                            JGet(JGet(file, "roster_state"), "roster").members[i].value)]]]

\* the selected file is read: json.load of a truncated file raises a ValueError
LoadSelected(st, file) ==
    IF file.content = Truncated
    THEN Outcome(FALSE, "invalid_selection", st)
    ELSE Outcome(TRUE, "loaded", RestoreBackup(file.content))

\* the try block of load_from_backup
LoadChoice(st, sorted, choice) ==
    IF Lower(choice) = Cancel THEN Outcome(FALSE, "cancelled", st)
    ELSE IF ToInt(choice) = -1 THEN Outcome(FALSE, "invalid_selection", st)
    ELSE IF ToInt(choice) >= 1 /\ ToInt(choice) <= ShownBackups
            /\ ToInt(choice) <= Len(sorted)
    THEN LoadSelected(st, sorted[ToInt(choice)])
    ELSE Outcome(FALSE, "out_of_range", st)

\* load_from_backup: [ok, outcome, st]
LoadFromBackup(st, dir, choice) ==
    IF dir = {} THEN Outcome(FALSE, "no_backups", st)
    ELSE LoadChoice(st, SortByMtimeDesc(dir), choice)

----------------------------------------------------------------------------
(* The interactive session                                                  *)

VARIABLES
    leagueIdx,       \* which league of Leagues the session was started for
    currentPick,     \* self.current_pick
    draftedPlayers,  \* self.drafted_players
    myTeam,          \* self.my_team
    rosterManager,   \* self.roster_manager.roster
    stateFile,       \* the content of self.state_file, NoFile while it does not exist
    backups,         \* the files of self.backup_dir
    clock,           \* the second the wall clock shows
    last             \* the last command and what it reported: [op, ok, outcome], where
                     \* its save stopped and how many backups it unlinked: [save, unlinked]

vars ==
    << leagueIdx, currentPick, draftedPlayers, myTeam, rosterManager, stateFile,
       backups, clock, last >>

\* picks are typed while current_pick <= MaxPick
MaxPick == 3

Mem ==
    [current_pick |-> currentPick,
     drafted_players |-> draftedPlayers,
     my_team |-> myTeam,
     roster |-> rosterManager]

MemNext ==
    [current_pick |-> currentPick',
     drafted_players |-> draftedPlayers',
     my_team |-> myTeam',
     roster |-> rosterManager']

SetMem(st) ==
    /\ currentPick' = st.current_pick
    /\ draftedPlayers' = st.drafted_players
    /\ myTeam' = st.my_team
    /\ rosterManager' = st.roster

\* the disk after a command: save_draft_state ran when the command succeeded
Disk(ok, files) ==
    /\ stateFile' = IF ok THEN files.state_file ELSE stateFile
    /\ backups' = IF ok THEN files.backups ELSE backups

\* a command that takes back its effect and reports failure when its save raises
RanSaving_RollsBackOnFault(op, r, fault) ==
    /\ SetMem(IF r.ok /\ fault # Completed THEN Mem ELSE r.st)
    /\ Disk(r.ok, SaveFiles(SaveDraftState(leagueIdx, r.st), stateFile, backups, clock, fault))
    /\ last' = [op |-> op, ok |-> r.ok /\ fault = Completed, outcome |-> r.outcome,
                save |-> IF r.ok THEN fault ELSE "not_called",
                unlinked |-> IF r.ok /\ fault = Completed
                             THEN UnlinkCalls(WriteBackup(backups, clock, Truncated))
                             ELSE 0]
    /\ UNCHANGED << leagueIdx, clock >>

\* a command that ran: the fields it left, the save it made when it succeeded, and
\* where that save stopped
RanSaving(op, r, fault) ==
    /\ SetMem(r.st)
    /\ Disk(r.ok, SaveFiles(SaveDraftState(leagueIdx, r.st), stateFile, backups, clock, fault))
    /\ last' = [op |-> op, ok |-> r.ok, outcome |-> r.outcome,
                save |-> IF r.ok THEN fault ELSE "not_called",
                unlinked |-> IF r.ok /\ fault = Completed
                             THEN UnlinkCalls(WriteBackup(backups, clock, Truncated))
                             ELSE 0]
    /\ UNCHANGED << leagueIdx, clock >>

\* a command whose writes all succeed
Ran(op, r) ==
    RanSaving(op, r, Completed)

Init ==
    /\ leagueIdx \in 1..Len(Leagues)
    /\ currentPick = FreshState(leagueIdx).current_pick
    /\ draftedPlayers = FreshState(leagueIdx).drafted_players
    /\ myTeam = FreshState(leagueIdx).my_team
    /\ rosterManager = FreshState(leagueIdx).roster
    /\ stateFile = NoFile
    /\ backups = {}
    /\ clock = 0
    /\ last = [op |-> "init", ok |-> FALSE, outcome |-> "starting_fresh",
               save |-> "not_called", unlinked |-> 0]

\* the command "d <name>": draft_player(name, "my_team")
DraftMine ==
    /\ currentPick <= MaxPick
    /\ \E k \in 1..Len(Inputs) : Ran("draft", DraftPlayer(leagueIdx, Mem, k, "my_team"))

\* the command "o <name>": draft_player(name, "other")
DraftOther ==
    /\ currentPick <= MaxPick
    /\ \E k \in 1..Len(Inputs) : Ran("mark_other", DraftPlayer(leagueIdx, Mem, k, "other"))

\* the command "undo": undo_last_pick()
Undo ==
    Ran("undo", UndoLastPick(Mem))

\* drop_player(name), called on the manager
Drop ==
    \E k \in 1..Len(Inputs) : Ran("drop", DropPlayer(Mem, Inputs[k]))

\* the command "save": save_draft_state(manual_save=True)
ManualSave ==
    Ran("save", Outcome(TRUE, "saved", Mem))

\* the tool is started again: __init__ sets the fresh fields, then load_draft_state()
NewSession ==
    LET r == LoadDraftState(FreshState(leagueIdx), stateFile)
    IN  /\ SetMem(r.st)
        /\ last' = [op |-> "load", ok |-> r.ok, outcome |-> r.outcome,
                    save |-> "not_called", unlinked |-> 0]
        /\ UNCHANGED << leagueIdx, stateFile, backups, clock >>

Next ==
    \/ DraftMine
    \/ DraftOther
    \/ Undo
    \/ Drop
    \/ ManualSave
    \/ NewSession

Spec == Init /\ [][Next]_vars

----------------------------------------------------------------------------
(* The roster manager on its own: players of every position are added to    *)
(* an empty roster one after the other                                      *)

\* the keys of slot_eligibility that name a position of their own
SlotPositions == << QB, RB, WR, TE, KK, DST >>

\* the player_name handed to add_player; the choice of slot never reads it
AddedName == RawPool[1].player

\* add_player is called while fewer than MaxAdds players were added
MaxAdds == 5

RosterInit ==
    /\ leagueIdx \in 1..Len(Leagues)
    /\ currentPick = 1
    /\ draftedPlayers = << >>
    /\ myTeam = << >>
    /\ rosterManager = InitializeRoster(Leagues[leagueIdx].roster_slots)
    /\ stateFile = NoFile
    /\ backups = {}
    /\ clock = 0
    /\ last = [op |-> "init", ok |-> FALSE, outcome |-> "empty_roster",
               save |-> "not_called", unlinked |-> 0]

\* what add_player answered
Added(a) ==
    /\ rosterManager' = a.roster
    /\ currentPick' = currentPick + 1
    /\ last' = [op |-> "add_player", ok |-> a.slot # None,
                outcome |-> IF a.slot = None THEN "no_slot" ELSE "added",
                save |-> "not_called", unlinked |-> 0]
    /\ UNCHANGED << leagueIdx, draftedPlayers, myTeam, stateFile, backups, clock >>

\* roster_manager.add_player(name, position, pick) with the next pick number
AddAny ==
    /\ currentPick <= MaxAdds
    /\ \E p \in 1..Len(SlotPositions) :
          Added(AddPlayer(rosterManager, AddedName, SlotPositions[p], currentPick))

RosterNext == AddAny

RosterSpec == RosterInit /\ [][RosterNext]_vars

----------------------------------------------------------------------------
(* Saves over many seconds of the wall clock                                *)

\* the wall clock is followed for MaxBackupSeconds seconds
MaxBackupSeconds == 11

\* a second passes between two commands
ClockAdvances(maxSeconds) ==
    /\ clock < maxSeconds
    /\ clock' = clock + 1
    /\ UNCHANGED << leagueIdx, currentPick, draftedPlayers, myTeam, rosterManager,
                    stateFile, backups, last >>

SecondPasses ==
    ClockAdvances(MaxBackupSeconds)

BackupNext ==
    \/ SecondPasses
    \/ ManualSave

BackupSpec == Init /\ [][BackupNext]_vars

----------------------------------------------------------------------------
(* A session that loads backups                                             *)

\* picks are typed while current_pick <= MaxRestorePick
MaxRestorePick == 1

\* the wall clock is followed for MaxRestoreSeconds seconds
MaxRestoreSeconds == 1

RestoreDraftMine ==
    /\ currentPick <= MaxRestorePick
    /\ \E k \in 1..Len(Inputs) : Ran("draft", DraftPlayer(leagueIdx, Mem, k, "my_team"))

RestoreDraftOther ==
    /\ currentPick <= MaxRestorePick
    /\ \E k \in 1..Len(Inputs) : Ran("mark_other", DraftPlayer(leagueIdx, Mem, k, "other"))

RestoreSecondPasses ==
    ClockAdvances(MaxRestoreSeconds)

\* what load_from_backup answered
Restored(r) ==
    /\ SetMem(r.st)
    /\ last' = [op |-> "load_backup", ok |-> r.ok, outcome |-> r.outcome,
                save |-> "not_called", unlinked |-> 0]
    /\ UNCHANGED << leagueIdx, stateFile, backups, clock >>

\* the command "load": load_from_backup() and the choice typed at its prompt
LoadBackup ==
    \E c \in 1..Len(BackupChoices) :
        Restored(LoadFromBackup(Mem, backups, BackupChoices[c]))

RestoreNext ==
    \/ RestoreDraftMine
    \/ RestoreDraftOther
    \/ Undo
    \/ Drop
    \/ ManualSave
    \/ RestoreSecondPasses
    \/ LoadBackup

RestoreSpec == Init /\ [][RestoreNext]_vars

----------------------------------------------------------------------------
(* A session on a disk whose writes may fail                                *)

\* picks are typed while current_pick <= MaxFaultyPick
MaxFaultyPick == 2

SaveEndings == SaveFaults \cup {Completed}

\* "Save failed" was not printed yet: the session is followed up to and including
\* the first command whose save fails
NoSaveFailed ==
    last.save \notin SaveFaults

FaultyDraftMine ==
    /\ NoSaveFailed
    /\ currentPick <= MaxFaultyPick
    /\ \E k \in 1..Len(Inputs), fault \in SaveEndings :
          RanSaving("draft", DraftPlayer(leagueIdx, Mem, k, "my_team"), fault)

FaultyDraftOther ==
    /\ NoSaveFailed
    /\ currentPick <= MaxFaultyPick
    /\ \E k \in 1..Len(Inputs), fault \in SaveEndings :
          RanSaving("mark_other", DraftPlayer(leagueIdx, Mem, k, "other"), fault)

FaultyUndo ==
    /\ NoSaveFailed
    /\ \E fault \in SaveEndings : RanSaving("undo", UndoLastPick(Mem), fault)

FaultyDrop ==
    /\ NoSaveFailed
    /\ \E k \in 1..Len(Inputs), fault \in SaveEndings :
          RanSaving("drop", DropPlayer(Mem, Inputs[k]), fault)

FaultyManualSave ==
    /\ NoSaveFailed
    /\ \E fault \in SaveEndings : RanSaving("save", Outcome(TRUE, "saved", Mem), fault)

FaultyNext ==
    \/ FaultyDraftMine
    \/ FaultyDraftOther
    \/ FaultyUndo
    \/ FaultyDrop
    \/ FaultyManualSave

FaultySpec == Init /\ [][FaultyNext]_vars

----------------------------------------------------------------------------
(* Properties                                                               *)

TeamChoices == {"my_team", "other"}

\* C1, as the specification words it: after every operation of a session the number
\* of drafted players is the current pick number less one.
C1_DraftedCountIsPickLessOne ==
    Len(draftedPlayers) = currentPick - 1

\* C1, amended: a session starts with len(draftedPlayers) = currentPick - 1; every
\* draft for either team, every undo and every rejected call keeps the difference
\* currentPick - len(draftedPlayers), and every successful drop_player raises it by
\* exactly one (the name leaves drafted_players, the pick number stays).
C1_DraftedCountLagsByDrops ==
    /\ Len(draftedPlayers) = currentPick - 1
    /\ [][(currentPick' - Len(draftedPlayers')) =
            (currentPick - Len(draftedPlayers))
              + (IF last'.op = "drop" /\ last'.ok THEN 1 ELSE 0)]_vars

\* a drop_player just succeeded and the list is two short of the pick number
C1_AfterDrop ==
    /\ last.op = "drop"
    /\ last.ok
    /\ Len(draftedPlayers) = currentPick - 2

\* C2: no player name occurs more than once in drafted_players, in every state a
\* session reaches by drafting for either team, undoing and dropping.
C2_NoNameDraftedTwice ==
    \A i, j \in 1..Len(draftedPlayers) :
        i # j => draftedPlayers[i] # draftedPlayers[j]

\* a pick was committed after an earlier own pick had been dropped
C2_DraftAfterDrop ==
    /\ last.op \in {"draft", "mark_other"}
    /\ last.ok
    /\ draftedPlayers # << >>
    /\ Len(draftedPlayers) < currentPick - 1

\* C3: undo_last_pick right after a successful draft for my team succeeds and gives
\* back drafted_players, my_team, current_pick and every roster slot as they were
\* before the draft.
C3_UndoRestoresStateBeforeDraft ==
    [][(last'.op = "draft" /\ last'.ok) =>
          /\ UndoLastPick(MemNext).ok
          /\ UndoLastPick(MemNext).st = Mem]_vars

\* a draft for my team just succeeded on a team that already had a player
C3_AfterOwnDraft ==
    /\ last.op = "draft"
    /\ last.ok
    /\ Len(myTeam) >= 2

\* C4: undo_last_pick succeeds exactly when my_team is not empty and its last entry
\* carries the pick number current_pick - 1; a failed undo changes neither the
\* fields nor the state file.
C4_UndoOnlyMostRecentPick ==
    [][last'.op = "undo" =>
          /\ last'.ok <=> (/\ myTeam # << >>
                           /\ myTeam[Len(myTeam)].pick = currentPick - 1)
          /\ ~last'.ok => (MemNext = Mem /\ stateFile' = stateFile)]_vars

\* an undo was refused although my team has picks
C4_UndoRefusedWithPicks ==
    /\ last.op = "undo"
    /\ ~last.ok
    /\ myTeam # << >>

\* C5: a draft for my team that finds no roster slot is rejected as a whole: the
\* fields are those before the call, and the player can still be drafted by another
\* team.
C5_RosterFullRejectsWholePick ==
    \A k \in 1..Len(Inputs) :
        LET r == DraftPlayer(leagueIdx, Mem, k, "my_team")
        IN  r.outcome = "roster_full" =>
                /\ ~r.ok
                /\ r.st = Mem
                /\ ResolutionTable[leagueIdx][k].player \notin Range(draftedPlayers)
                /\ DraftPlayer(leagueIdx, r.st, k, "other").ok

\* a draft for my team was just rejected because the roster is full
C5_AfterRosterFull ==
    /\ last.op = "draft"
    /\ last.outcome = "roster_full"
    /\ \A i \in 1..Len(rosterManager) : rosterManager[i].player # None

RejectedNames ==
    {"ambiguous", "not_found", "no_reasonable_match", "defense_not_in_league",
     "already_drafted"}

\* the second of two draft_player calls with the same typed name
SecondCallIsNoOp(l, first, k) ==
    \A team \in TeamChoices :
        LET second == DraftPlayer(l, first.st, k, team)
        IN  /\ ~second.ok
            /\ second.outcome = "already_drafted"
            /\ second.st = first.st

\* C6: a draft_player call that is rejected because the name is ambiguous, not found
\* or already drafted changes no field; after a call that commits a name, the same
\* name typed again is rejected as already drafted and changes nothing.
C6_RejectedDraftChangesNothing ==
    \A k \in 1..Len(Inputs), team \in TeamChoices :
        LET first == DraftPlayer(leagueIdx, Mem, k, team)
        IN  /\ first.outcome \in RejectedNames => (~first.ok /\ first.st = Mem)
            /\ first.ok => SecondCallIsNoOp(leagueIdx, first, k)

\* a draft_player call was just rejected for a name that is already drafted
C6_AfterAlreadyDrafted ==
    /\ last.op \in {"draft", "mark_other"}
    /\ last.outcome = "already_drafted"
    /\ draftedPlayers # << >>

\* the roster object of a saved document
SavedRoster(file) ==
    JGet(JGet(file, "roster_state"), "roster")

\* the members of a saved roster object under one slot name
SavedUnder(saved, slotName) ==
    { m \in 1..Len(saved.members) : saved.members[m].key = slotName }

\* what a session started on this file holds
Reloaded(l, file) ==
    LoadDraftState(FreshState(l), file)

\* the saved roster keeps every slot as one key, an empty slot as null
KeepsEverySlot(saved, roster) ==
    \A i \in 1..Len(roster) :
        /\ Cardinality(SavedUnder(saved, roster[i].slot)) = 1
        /\ roster[i].player = None => JGet(saved, roster[i].slot) = JNull

\* C7: saving a state and loading the file in a fresh session gives back current_pick,
\* drafted_players, my_team and every roster slot; an empty slot is written as a key
\* with null and is None after the load, never missing and never a string.  The file
\* a session has written always holds the session's present fields.
C7_SaveLoadRoundTrip ==
    LET file == SaveDraftState(leagueIdx, Mem)
        saved == SavedRoster(file)
        loaded == Reloaded(leagueIdx, file)
    IN  /\ loaded.ok
        /\ loaded.st = Mem
        /\ KeepsEverySlot(saved, rosterManager)
        /\ \A i \in 1..Len(loaded.st.roster) : loaded.st.roster[i].player.py # "str"
        /\ stateFile # NoFile => Reloaded(leagueIdx, stateFile).st = Mem

\* a fresh session just loaded a roster with a filled and an empty slot
C7_AfterLoad ==
    /\ last.op = "load"
    /\ last.ok
    /\ \E i, j \in 1..Len(rosterManager) :
          /\ rosterManager[i].player = None
          /\ rosterManager[j].player # None

\* the roster slots that hold a player
OccupiedSlots ==
    { i \in 1..Len(rosterManager) : rosterManager[i].player # None }

\* the my_team entries a roster slot stands for
EntriesOf(i) ==
    { e \in 1..Len(myTeam) :
        /\ myTeam[e].slot = rosterManager[i].slot
        /\ myTeam[e].player = rosterManager[i].player.name
        /\ myTeam[e].pick = rosterManager[i].player.pick }

\* C8: every my_team entry's slot holds that player with that pick number, every
\* occupied slot stands for exactly one my_team entry, and there are as many occupied
\* slots as my_team entries.
C8_TeamMatchesRoster ==
    /\ \A e \in 1..Len(myTeam) :
          \E i \in OccupiedSlots : e \in EntriesOf(i)
    /\ \A i \in OccupiedSlots :
          /\ rosterManager[i].player.py = "dict"
          /\ Cardinality(EntriesOf(i)) = 1
    /\ Cardinality(OccupiedSlots) = Len(myTeam)

\* a player was just dropped from a team that keeps another player
C8_AfterDropWithTeamLeft ==
    /\ last.op = "drop"
    /\ last.ok
    /\ myTeam # << >>

\* s without its idx-th element
Without(s, idx) ==
    SubSeq(s, 1, idx - 1) \o SubSeq(s, idx + 1, Len(s))

\* r is st with exactly the idx-th my_team entry dropped
DropsExactly(st, r, idx) ==
    /\ r.st.my_team = Without(st.my_team, idx)
    /\ r.st.drafted_players =
          SelectSeq(st.drafted_players, LAMBDA n : n # st.my_team[idx].player)
    /\ Len(r.st.drafted_players) = Len(st.drafted_players) - 1
    /\ r.st.current_pick = st.current_pick
    /\ Len(r.st.roster) = Len(st.roster)
    /\ \A i \in 1..Len(st.roster) :
          r.st.roster[i] = IF st.roster[i].slot = st.my_team[idx].slot
                           THEN [slot |-> st.roster[i].slot, player |-> None]
                           ELSE st.roster[i]

\* every typed name that resolves to the player commits a pick for either team
CanBeDrafted(l, st, name) ==
    /\ \E k \in 1..Len(Inputs) : ResolutionTable[l][k].player = name
    /\ \A k \in 1..Len(Inputs), team \in TeamChoices :
          ResolutionTable[l][k].player = name => DraftPlayer(l, st, k, team).ok

\* no my_team name is the typed name or close to it
MatchesNobody(st, text) ==
    \A idx \in 1..Len(st.my_team) :
        ~RatioAtLeast(Lower(Strip(text)), Lower(st.my_team[idx].player),
                      DropCutoffTenths, 10)

\* C9: drop_player of a player of my_team, the most recent pick or not, empties that
\* player's slot, removes that my_team entry and that name from drafted_players, so
\* that the player can be drafted again, and leaves current_pick, the other slots, the
\* other entries and the order of the remaining drafted_players alone; typing a
\* rostered player's name drops that player; a name that matches no rostered player,
\* and every other refused drop, changes nothing.
C9_DropRemovesExactlyOnePlayer ==
    \A k \in 1..Len(Inputs) :
        LET r == DropPlayer(Mem, Inputs[k])
        IN  /\ r.ok =>
                  \E idx \in 1..Len(myTeam) :
                      /\ DropsExactly(Mem, r, idx)
                      /\ CanBeDrafted(leagueIdx, r.st, myTeam[idx].player)
            /\ \A idx \in 1..Len(myTeam) :
                  Lower(Strip(Inputs[k])) = Lower(myTeam[idx].player) =>
                      (r.ok /\ DropsExactly(Mem, r, idx))
            /\ MatchesNobody(Mem, Inputs[k]) => ~r.ok
            /\ ~r.ok => r.st = Mem

\* a player other than the most recent own pick was just dropped
C9_AfterDropOfOlderPick ==
    /\ last.op = "drop"
    /\ last.ok
    /\ myTeam # << >>
    /\ myTeam[Len(myTeam)].pick = currentPick - 1
    /\ Len(draftedPlayers) = currentPick - 2

\* the slot type of a slot name: the name without its number
SlotTypeOf(slotName) ==
    SelectSeq(slotName, LAMBDA c : c \notin Range(DigitChars))

\* the slot names of the leagues' rosters and their slot types, computed once
SlotNames ==
    UNION { { InitializeRoster(Leagues[l].roster_slots)[i].slot :
                i \in 1..Len(InitializeRoster(Leagues[l].roster_slots)) } :
            l \in 1..Len(Leagues) }

SlotTypeTable ==
    [n \in SlotNames |-> SlotTypeOf(n)]

EmptySlotsOfType(roster, t) ==
    { i \in 1..Len(roster) :
        /\ roster[i].player = None
        /\ roster[i].slot \in SlotNames
        /\ SlotTypeTable[roster[i].slot] = t }

\* the eligibility order of a position as C10 lists it
EligibilityOrder(position) ==
    IF position = QB THEN << QB, OP >>
    ELSE IF position \in {RB, WR, TE} THEN << position, FLEX, OP >>
    ELSE << position >>

\* the places in the eligibility order whose slot type has an empty slot
OpenTypes(roster, position) ==
    { k \in 1..Len(EligibilityOrder(position)) :
        EmptySlotsOfType(roster, EligibilityOrder(position)[k]) # {} }

\* the slot C10 names, 0 when neither an eligible nor a bench slot is empty
ExpectedSlot(roster, position) ==
    IF OpenTypes(roster, position) # {}
    THEN Least(EmptySlotsOfType(roster,
                   EligibilityOrder(position)[Least(OpenTypes(roster, position))]))
    ELSE IF EmptySlotsOfType(roster, BENCH) # {}
    THEN Least(EmptySlotsOfType(roster, BENCH))
    ELSE 0

\* add_player's answer a fills slot e of roster and nothing else
FillsOnly(roster, a, e, position, pick) ==
    /\ a.slot = PyStr(roster[e].slot)
    /\ Len(a.roster) = Len(roster)
    /\ a.roster[e] = [slot |-> roster[e].slot,
                      player |-> PyOccupant(AddedName, position, pick, roster[e].slot)]
    /\ \A i \in 1..Len(roster) : i # e => a.roster[i] = roster[i]

\* C10: add_player fills exactly one slot, the first empty slot of the first slot type
\* in the position's eligibility order that has an empty slot, a bench slot only when
\* no eligible starting slot is empty, and leaves the other slots alone (with no such
\* slot it fills none); a QB added to the empty default roster fills "QB".
C10_AddPlayerFillsFirstEligibleSlot ==
    /\ \A p \in 1..Len(SlotPositions) :
          LET e == ExpectedSlot(rosterManager, SlotPositions[p])
              a == AddPlayer(rosterManager, AddedName, SlotPositions[p], currentPick)
          IN  IF e # 0
              THEN FillsOnly(rosterManager, a, e, SlotPositions[p], currentPick)
              ELSE a = [slot |-> None, roster |-> rosterManager]
    /\ rosterManager = InitializeRoster(DefaultRosterSlots) =>
          AddPlayer(rosterManager, AddedName, QB, currentPick).slot = PyStr(QB)

\* the default roster after a third RB went to FLEX1 and a second K to the bench
C10_FlexAndBenchReached ==
    /\ leagueIdx = 1
    /\ \E i, j \in 1..Len(rosterManager) :
          /\ rosterManager[i].slot = FLEX \o << "1" >>
          /\ rosterManager[i].player # None
          /\ rosterManager[i].player.position = RB
          /\ rosterManager[j].slot = BENCH \o << "1" >>
          /\ rosterManager[j].player # None
          /\ rosterManager[j].player.position = KK

SomeSlotEmpty(roster) ==
    \E i \in 1..Len(roster) : roster[i].player = None

BackupNames(dir) ==
    { f.name : f \in dir }

\* C13: after every completed save at most 10 backup files exist; the backup just
\* written is among them with the content of the state file; no other file appears;
\* every file the save deleted is older than every file it kept, and it deleted no
\* more than needed to come down to 10. From an empty directory this makes the files
\* kept the 10 most recently modified of all backups written so far.
C13_KeepsTenMostRecentBackups ==
    /\ [](Cardinality(backups) <= KeepBackups)
    /\ [][(clock' = clock /\ last'.save = Completed) =>
            /\ \E f \in backups' : f.name = clock /\ f.mtime = clock
                                     /\ f.content = stateFile'
            /\ BackupNames(backups') \subseteq BackupNames(backups) \cup {clock}
            /\ \A d \in backups : \A k \in backups' :
                  d.name \notin BackupNames(backups') => d.mtime < k.mtime
            /\ Cardinality(backups') =
                  IF Cardinality(BackupNames(backups) \cup {clock}) <= KeepBackups
                  THEN Cardinality(BackupNames(backups) \cup {clock})
                  ELSE KeepBackups]_vars

\* a save has just written the eleventh backup and unlinked the oldest one
C13_EleventhBackupWritten ==
    /\ last.op = "save"
    /\ last.save = Completed
    /\ last.unlinked = 1
    /\ Cardinality(backups) = KeepBackups
    /\ \E f \in backups : f.name = clock

\* C12: after every operation that successfully changes drafted_players, my_team,
\* current_pick or a roster slot, the state file holds a snapshot whose current_pick,
\* drafted_players, my_team and roster equal the fields in memory, and a timestamped
\* backup with the same content exists (all writes succeed).
C12_FilesHoldMemoryAfterEveryChange ==
    [][(last'.ok /\ MemNext # Mem) =>
          /\ stateFile' \notin {NoFile, Truncated}
          /\ RestoreBackup(stateFile') = MemNext
          /\ \E f \in backups' : f.content = stateFile']_vars

\* C14: when a write of the snapshot fails during draft_player, undo_last_pick or
\* drop_player, the command still reports success and keeps its effect in memory: a
\* draft has appended the name and advanced the pick number, an undo has taken both
\* back together with the team entry, a drop has removed the name and the team entry
\* and left the pick number; the command returns one of its normal outcomes.
C14_FailedSaveKeepsEffect ==
    [][(last'.save \in SaveFaults /\ last'.op \in {"draft", "mark_other", "undo", "drop"}) =>
          /\ last'.ok
          /\ last'.outcome \in {"drafted", "drafted_by_other", "undone", "dropped"}
          /\ last'.op \in {"draft", "mark_other"} =>
                /\ currentPick' = currentPick + 1
                /\ Len(draftedPlayers') = Len(draftedPlayers) + 1
                /\ Len(myTeam') = Len(myTeam) + (IF last'.op = "draft" THEN 1 ELSE 0)
          /\ last'.op = "undo" =>
                /\ currentPick' = currentPick - 1
                /\ Len(draftedPlayers') = Len(draftedPlayers) - 1
                /\ Len(myTeam') = Len(myTeam) - 1
          /\ last'.op = "drop" =>
                /\ currentPick' = currentPick
                /\ Len(draftedPlayers') = Len(draftedPlayers) - 1
                /\ Len(myTeam') = Len(myTeam) - 1
          /\ Cardinality(OccupiedSlots') = Len(myTeam')]_vars

\* an undo has reported success although json.dump left the state file truncated
C14_UndoWithTruncatedStateFile ==
    /\ last.op = "undo"
    /\ last.ok
    /\ last.save = "dump_state_file"
    /\ stateFile = Truncated
    /\ draftedPlayers # << >>

----------------------------------------------------------------------------
(* A session whose recommendations are asked for                            *)

\* picks are typed while current_pick <= MaxRecPick
MaxRecPick == 4

\* the names typed in this session, each the full name of a ranked player
RecInputs ==
    { RankedPool[1].player, RankedPool[2].player, RankedPool[5].player,
      RankedPool[6].player, RankedPool[7].player }

\* num_recommendations as callers pass it; 5 is the default
RecCounts == {1, 2, 5}

\* the orders a sort may leave between entries of equal total_score
TieOrders == {"kept", "reversed"}

\* draft_player up to the choice of player_matches, for every typed name in every
\* league, computed once
RankedResolution ==
    [l \in 1..Len(Leagues) |->
        [name \in RecInputs |->
            ResolveAmong(Leagues[l], Lower(name),
                         FilterRows(RankedTable[l], EligiblePositions(Leagues[l])))]]

\* draft_player(name, team) on the ranked players of the league
DraftRanked(l, st, name, team) ==
    CommitPick(Leagues[l], st, RankedResolution[l][name], team)

\* a command of the recommendation session that ran; nothing is listed
RanUnlisted(op, r) ==
    /\ SetMem(r.st)
    /\ Disk(r.ok, SaveFiles(SaveDraftState(leagueIdx, r.st), stateFile, backups, clock,
                            Completed))
    /\ last' = [op |-> op, ok |-> r.ok, outcome |-> r.outcome,
                save |-> IF r.ok THEN Completed ELSE "not_called",
                unlinked |-> 0, n |-> 0, ties |-> "kept", raised |-> FALSE,
                scored |-> << >>, recs |-> << >>]
    /\ UNCHANGED << leagueIdx, clock >>

RecInit ==
    /\ leagueIdx \in 1..Len(Leagues)
    /\ currentPick = FreshState(leagueIdx).current_pick
    /\ draftedPlayers = FreshState(leagueIdx).drafted_players
    /\ myTeam = FreshState(leagueIdx).my_team
    /\ rosterManager = FreshState(leagueIdx).roster
    /\ stateFile = NoFile
    /\ backups = {}
    /\ clock = 0
    /\ last = [op |-> "init", ok |-> FALSE, outcome |-> "starting_fresh",
               save |-> "not_called", unlinked |-> 0, n |-> 0, ties |-> "kept",
               raised |-> FALSE, scored |-> << >>, recs |-> << >>]

\* the command "d <name>"
RecDraftMine ==
    /\ currentPick <= MaxRecPick
    /\ \E name \in RecInputs :
          RanUnlisted("draft", DraftRanked(leagueIdx, Mem, name, "my_team"))

\* the command "o <name>"
RecDraftOther ==
    /\ currentPick <= MaxRecPick
    /\ \E name \in RecInputs :
          RanUnlisted("mark_other", DraftRanked(leagueIdx, Mem, name, "other"))

\* what get_draft_recommendation(n) answered, with the scored entries it sorted
Listed(n, ties, scored, r) ==
    /\ last' = [op |-> "recommend", ok |-> ~r.raised,
                outcome |-> IF r.raised THEN "key_error" ELSE "listed",
                save |-> "not_called", unlinked |-> 0, n |-> n, ties |-> ties,
                raised |-> r.raised, scored |-> scored, recs |-> r.recs]
    /\ UNCHANGED << leagueIdx, currentPick, draftedPlayers, myTeam, rosterManager,
                    stateFile, backups, clock >>

\* get_draft_recommendation(n) for each n, from the same sorted entries
ListedFor(ties, scored) ==
    \E n \in RecCounts :
        Listed(n, ties, scored,
               BalancedAnswer(Leagues[leagueIdx], Mem, RankedTable[leagueIdx], n, scored))

\* get_draft_recommendation(n)
Recommend ==
    \E ties \in TieOrders :
        ListedFor(ties,
                  ScoredCandidates(Leagues[leagueIdx], Mem, RankedTable[leagueIdx],
                                   Candidates(Leagues[leagueIdx], Mem,
                                              RankedTable[leagueIdx]),
                                   ties))

RecNext ==
    \/ RecDraftMine
    \/ RecDraftOther
    \/ Recommend

RecSpec == RecInit /\ [][RecNext]_vars

----------------------------------------------------------------------------
(* The recommendation list                                                  *)

\* the roster count of a position that the targets are compared with
RosterCount(pos) ==
    Cardinality({ i \in 1..Len(rosterManager) :
                    /\ rosterManager[i].player # None
                    /\ rosterManager[i].player.position = pos })

\* the targets of the six positions in the session's league
PositionTarget(pos) ==
    IF pos = QB THEN (IF HasQbFlex(Leagues[leagueIdx]) THEN 3 ELSE 2)
    ELSE IF pos = RB THEN 6
    ELSE IF pos = WR THEN 7
    ELSE IF pos = TE THEN 2
    ELSE IF pos \in EligiblePositions(Leagues[leagueIdx]) THEN 1
    ELSE 0

\* the positions at or over their target, and those with target 0
SaturatedNow ==
    { pos \in {QB, RB, WR, TE, KK, DST} :
        PositionTarget(pos) = 0 \/ RosterCount(pos) >= PositionTarget(pos) }

\* some starting slot other than FLEX and OP is empty
CriticalSlotEmpty ==
    \E i \in 1..Len(rosterManager) :
        /\ rosterManager[i].player = None
        /\ SlotTypeOf(rosterManager[i].slot) \notin {BENCH, FLEX, OP}

MaxSaturatedNow == IF CriticalSlotEmpty THEN 1 ELSE 2

\* how often a position appears in the list just answered
TimesListed(pos) ==
    Cardinality({ i \in 1..Len(last.recs) : last.recs[i].position = pos })

\* the place in the sorted candidates of the list's last entry
LastListedPlace ==
    CHOOSE j \in 1..Len(last.scored) :
        last.scored[j].player = last.recs[Len(last.recs)].player

RoundNow ==
    ((currentPick - 1) \div Leagues[leagueIdx].num_teams) + 1

\* totalRounds = the sum of all configured slot counts
RoundsInAll ==
    SumCounts(Leagues[leagueIdx].roster_slots)

\* the ranked kickers and defenses of the league that nobody has drafted
OpenKickersAndDefenses ==
    { RankedTable[leagueIdx][i].player :
        i \in { k \in 1..Len(RankedTable[leagueIdx]) :
                  /\ RankedTable[leagueIdx][k].position \in {KK, DST}
                  /\ RankedTable[leagueIdx][k].position \in EligiblePositions(Leagues[leagueIdx])
                  /\ RankedTable[leagueIdx][k].player \notin Range(draftedPlayers) } }

\* C16: while currentRound < totalRounds - 1 no K or D/ST player is in the
\* recommendation list; from the round totalRounds - 1 on, that round included,
\* every eligible undrafted K and D/ST player is scored as a candidate.
C16_KickersAndDefensesWaitForLateRounds ==
    last.op = "recommend" =>
        /\ RoundNow < RoundsInAll - 1 =>
              /\ \A i \in 1..Len(last.recs) : last.recs[i].position \notin {KK, DST}
              /\ \A i \in 1..Len(last.scored) : last.scored[i].position \notin {KK, DST}
        /\ RoundNow >= RoundsInAll - 1 =>
              \A name \in OpenKickersAndDefenses :
                  \E i \in 1..Len(last.scored) :
                      /\ last.scored[i].player = name
                      /\ last.scored[i].need_score # -500

\* in the round before the last one a kicker and a defense are recommended
C16_ListedInBoundaryRound ==
    /\ last.op = "recommend"
    /\ RoundNow = RoundsInAll - 1
    /\ \E i \in 1..Len(last.recs) : last.recs[i].position = KK
    /\ \E i \in 1..Len(last.recs) : last.recs[i].position = DST

----------------------------------------------------------------------------
(* A session in which names are typed against a pool with a kicker          *)

\* the ranked player file with a kicker in its last row
NamedPool ==
    RawPool \o << [player |-> << "J","a","k","e"," ","B","a","t","e","s" >>,
                   pos |-> << "K","1" >>] >>

\* the texts typed for draft and mark-other
TypedNames ==
    << << "j","o","s","h"," ","a","l","l","e","n" >>,
       << "j","a","k","e"," ","b","a","t","e","s" >>,
       << "b","r","e","e","c","e"," ","h","a","l","l"," ","o","f"," ","t","h","e"," ",
          "b","i","l","l","s" >>,
       << "b","i","l","l","s" >>,
       << "j","o","s","h"," ","a","l","e","n" >>,
       << "b","r","e","e","c","e"," ","h","a","l" >> >>

\* picks are typed while current_pick <= MaxTypedPick
MaxTypedPick == 2

\* self.players of each league for the pool with the kicker
NamedPlayers ==
    [l \in 1..Len(Leagues) |-> LoadPlayers(Leagues[l], NamedPool)]

\* draft_player up to the choice of player_matches, for every typed text in every
\* league, computed once
TypedResolution ==
    [l \in 1..Len(Leagues) |->
        [k \in 1..Len(TypedNames) |->
            ResolveName(Leagues[l], NamedPlayers[l], TypedNames[k])]]

\* draft_player matching the text against the undrafted players only
DraftTyped_HidesDrafted(l, st, k, team) ==
    CommitPick(Leagues[l], st,
               ResolveName(Leagues[l],
                           SelectSeq(NamedPlayers[l],
                                     LAMBDA row : row.player \notin Range(st.drafted_players)),
                           TypedNames[k]),
               team)

\* draft_player(TypedNames[k], team) in league l
DraftTyped(l, st, k, team) ==
    CommitPick(Leagues[l], st, TypedResolution[l][k], team)

\* a draft command that ran: what was typed, what the text resolved to, and the
\* fields and files the command left
RanTyped(op, k, r) ==
    /\ SetMem(r.st)
    /\ Disk(r.ok, SaveFiles(SaveDraftState(leagueIdx, r.st), stateFile, backups, clock,
                            Completed))
    /\ last' = [op |-> op, ok |-> r.ok, outcome |-> r.outcome,
                save |-> IF r.ok THEN Completed ELSE "not_called",
                unlinked |-> 0, input |-> k, resolution |-> TypedResolution[leagueIdx][k]]
    /\ UNCHANGED << leagueIdx, clock >>

TypedInit ==
    /\ leagueIdx \in 1..Len(Leagues)
    /\ currentPick = FreshState(leagueIdx).current_pick
    /\ draftedPlayers = FreshState(leagueIdx).drafted_players
    /\ myTeam = FreshState(leagueIdx).my_team
    /\ rosterManager = FreshState(leagueIdx).roster
    /\ stateFile = NoFile
    /\ backups = {}
    /\ clock = 0
    /\ last = [op |-> "init", ok |-> FALSE, outcome |-> "starting_fresh",
               save |-> "not_called", unlinked |-> 0, input |-> 0,
               resolution |-> Unresolved("nothing_typed")]

\* the command "d <name>"
TypedDraftMine ==
    /\ currentPick <= MaxTypedPick
    /\ \E k \in 1..Len(TypedNames) :
          RanTyped("draft", k, DraftTyped(leagueIdx, Mem, k, "my_team"))

\* the command "o <name>"
TypedDraftOther ==
    /\ currentPick <= MaxTypedPick
    /\ \E k \in 1..Len(TypedNames) :
          RanTyped("mark_other", k, DraftTyped(leagueIdx, Mem, k, "other"))

TypedNext ==
    \/ TypedDraftMine
    \/ TypedDraftOther

TypedSpec == TypedInit /\ [][TypedNext]_vars

----------------------------------------------------------------------------
(* Typed names and what they resolve to                                     *)

\* the command just run was a draft or a mark-other (after the step)
TypedJustRan ==
    last'.op \in {"draft", "mark_other"}

\* the text of the command just run, as draft_player compares it
TypedTextNext ==
    LowerOf(Strip(TypedNames[last'.input]))

\* the league's roster configuration has no slot of the position
ZeroSlots(pos) ==
    \A i \in 1..Len(Leagues[leagueIdx].roster_slots) :
        Leagues[leagueIdx].roster_slots[i].pos = pos
            => Leagues[leagueIdx].roster_slots[i].count = 0

\* the names of the raw pool's rows of a position
RawNamesAt(pos) ==
    { NamedPool[i].player :
        i \in { k \in 1..Len(NamedPool) : ExtractPosition(NamedPool[k].pos) = pos } }

\* C17: in a league with zero K slots K is not an eligible position, and drafting a
\* kicker of the raw pool by name changes no state and is reported as "position not
\* in the league", not as not-found or ambiguous and never as a pick.
C17_KickerRejectedAsNotInLeague ==
    [][(/\ TypedJustRan
        /\ ZeroSlots(KK)
        /\ \E name \in RawNamesAt(KK) : LowerOf(name) = TypedTextNext)
          => /\ KK \notin AllEligiblePositions(Leagues[leagueIdx].roster_slots)
             /\ MemNext = Mem
             /\ stateFile' = stateFile
             /\ ~last'.ok
             /\ last'.outcome = "position_not_in_league"]_vars

\* the rows of the raw pool whose position is eligible in the session's league
EligibleRawRows ==
    { i \in 1..Len(NamedPool) :
        StandardizePosition(ExtractPosition(NamedPool[i].pos))
            \in EligiblePositions(Leagues[leagueIdx]) }

\* C18: a typed text that equals the full name of an eligible pool player, case
\* ignored, resolves to exactly that player, whatever other names begin with it.
C18_ExactNameWins ==
    last.op \in {"draft", "mark_other"} =>
        \A i \in EligibleRawRows :
            LowerOf(NamedPool[i].player) = LowerOf(TypedNames[last.input])
                => last.resolution =
                     [kind |-> "resolved",
                      player |-> NamedPool[i].player,
                      position |-> StandardizePosition(ExtractPosition(NamedPool[i].pos))]

\* "josh allen" was typed in a league where Josh Allen and Josh Allen Jr. are both
\* eligible, and Josh Allen was drafted
C18_JoshAllenDrafted ==
    /\ last.op = "draft"
    /\ last.ok
    /\ TypedNames[last.input] = << "j","o","s","h"," ","a","l","l","e","n" >>
    /\ \E i, j \in EligibleRawRows :
          /\ i # j
          /\ LowerOf(NamedPool[i].player) = TypedNames[last.input]
          /\ StartsWith(LowerOf(NamedPool[j].player), TypedNames[last.input])
          /\ last.resolution.player = NamedPool[i].player
          /\ draftedPlayers = << NamedPool[i].player >>

\* C19 as stated: name resolution never matches a player that is already in
\* draftedPlayers.
C19_DraftedPlayersNeverResolve ==
    [][(TypedJustRan /\ last'.resolution.kind = "resolved")
          => last'.resolution.player \notin Range(draftedPlayers)]_vars

\* C19: name resolution does not look at draftedPlayers; a text that resolves to a
\* player already drafted is rejected as already drafted and changes no field and no
\* file, so that no name is ever in draftedPlayers twice.
C19_DraftedPlayerResolvesAndIsRejected ==
    /\ [](\A i, j \in 1..Len(draftedPlayers) :
              draftedPlayers[i] = draftedPlayers[j] => i = j)
    /\ [][(/\ TypedJustRan
           /\ last'.resolution.kind = "resolved"
           /\ last'.resolution.player \in Range(draftedPlayers))
             => /\ last'.outcome = "already_drafted"
                /\ ~last'.ok
                /\ MemNext = Mem
                /\ stateFile' = stateFile
                /\ backups' = backups]_vars

\* the name of a drafted player was typed again: it resolved and was rejected
C19_DraftedNameTypedAgain ==
    /\ last.op \in {"draft", "mark_other"}
    /\ last.resolution.kind = "resolved"
    /\ last.resolution.player \in Range(draftedPlayers)
    /\ last.outcome = "already_drafted"
    /\ Len(draftedPlayers) = 1

\* C20: a text that is not an exact name and is classified as a defense search
\* resolves, if it resolves, to a D/ST player and never to a player of another
\* position.
C20_DefenseSearchResolvesOnlyDefenses ==
    (/\ last.op \in {"draft", "mark_other"}
     /\ \A i \in EligibleRawRows :
           LowerOf(NamedPool[i].player) # LowerOf(Strip(TypedNames[last.input]))
     /\ IsDefenseSearch(Leagues[leagueIdx], LowerOf(Strip(TypedNames[last.input])),
                        NamedPlayers[leagueIdx])
     /\ last.resolution.kind = "resolved")
        => last.resolution.position \in DefensePositions

----------------------------------------------------------------------------
(* SQLRunner.execute_sql: one call, followed attempt by attempt.  The call  *)
(* is kept in last: its arguments, the loop's retries counter, what each    *)
(* connection.execute did, and how the call ended.                          *)

\* max_retries is drawn from -1..MaxRetries
MaxRetries == 3

\* the frames a query may answer with
Frames == {"frame_a", "frame_b"}

\* the while condition: retries <= (max_retries if retry else 0)
LoopGoesOn(retries, maxRetries, retry) ==
    retries <= (IF retry THEN maxRetries ELSE 0)

\* an IO error is retried one time fewer
RetryAfterIoError_OneFewer(retries, maxRetries, retry) ==
    retries < maxRetries /\ retry

\* after retries += 1: "if retries <= max_retries and retry"
RetryAfterIoError(retries, maxRetries, retry) ==
    retries <= maxRetries /\ retry

\* the call before its first pass through the loop
SqlCall(retry, maxRetries, params) ==
    [op |-> "execute_sql", retry |-> retry, max_retries |-> maxRetries,
     params |-> params, retries |-> 0, calls |-> << >>, slept |-> 0,
     at |-> "loop", result |-> "none", error |-> "none"]

SqlInit ==
    /\ leagueIdx = 1
    /\ currentPick = FreshState(1).current_pick
    /\ draftedPlayers = FreshState(1).drafted_players
    /\ myTeam = FreshState(1).my_team
    /\ rosterManager = FreshState(1).roster
    /\ stateFile = NoFile
    /\ backups = {}
    /\ clock = 0
    /\ \E retry \in BOOLEAN, maxRetries \in -1..MaxRetries, params \in BOOLEAN :
          last = SqlCall(retry, maxRetries, params)

\* the call is in its loop and the loop condition holds
InLoop ==
    /\ last.op = "execute_sql"
    /\ last.at = "loop"
    /\ LoopGoesOn(last.retries, last.max_retries, last.retry)

SqlStep(call) ==
    /\ last' = call
    /\ UNCHANGED << leagueIdx, currentPick, draftedPlayers, myTeam, rosterManager,
                    stateFile, backups, clock >>

\* connection.execute(...) answers and result.df() is returned
QueryAnswers ==
    /\ InLoop
    /\ \E frame \in Frames :
          SqlStep([last EXCEPT !.calls = Append(last.calls, frame),
                               !.at = "returned",
                               !.result = frame])

\* connection.execute(...) raises duckdb.IOException: retries += 1, then either
\* sleep 0.5 * retries (counted in half seconds) and continue, or raise SQLRunnerError
QueryIoError ==
    /\ InLoop
    /\ SqlStep(IF RetryAfterIoError(last.retries + 1, last.max_retries, last.retry)
               THEN [last EXCEPT !.calls = Append(last.calls, "io_error"),
                                 !.retries = last.retries + 1,
                                 !.slept = last.slept + (last.retries + 1)]
               ELSE [last EXCEPT !.calls = Append(last.calls, "io_error"),
                                 !.retries = last.retries + 1,
                                 !.at = "raised",
                                 !.error = "database_io_error"])

\* connection.execute(...) or result.df() raises any other exception
QueryOtherError ==
    /\ InLoop
    /\ SqlStep([last EXCEPT !.calls = Append(last.calls, "other_error"),
                            !.at = "raised",
                            !.error = "query_execution_failed"])

\* the loop condition fails: the raise after the loop
LoopExhausted ==
    /\ last.op = "execute_sql"
    /\ last.at = "loop"
    /\ ~LoopGoesOn(last.retries, last.max_retries, last.retry)
    /\ SqlStep([last EXCEPT !.at = "raised", !.error = "query_failed_after_retries"])

SqlNext ==
    \/ QueryAnswers
    \/ QueryIoError
    \/ QueryOtherError
    \/ LoopExhausted

SqlSpec == SqlInit /\ [][SqlNext]_vars

\* how many times connection.execute was called
Attempts == Len(last.calls)

----------------------------------------------------------------------------
(* League formats: roster maps as a detector or a configuration file hands  *)
(* them over, the roster built from each, and the need score and weighting  *)
(* of a candidate as players are added                                      *)

\* a detected superflex league: slot id 24 of the ESPN slot map is "SUPERFLEX"
SuperflexRosterSlots ==
    << [pos |-> QB, count |-> 1], [pos |-> RB, count |-> 1], [pos |-> WR, count |-> 1],
       [pos |-> SUPERFLEX, count |-> 1], [pos |-> BENCH, count |-> 1] >>

\* a detected league that starts four receivers
FourReceiverRosterSlots ==
    << [pos |-> WR, count |-> 4], [pos |-> FLEX, count |-> 1], [pos |-> BENCH, count |-> 2] >>

\* detected leagues whose roster map names the defense "DST" (as the fallback
\* configuration of league_config.py does), "D", and "D/ST"
DstRosterSlots ==
    << [pos |-> QB, count |-> 1], [pos |-> DSTAlias, count |-> 1],
       [pos |-> BENCH, count |-> 1] >>

DRosterSlots ==
    << [pos |-> QB, count |-> 1], [pos |-> DAlias, count |-> 1],
       [pos |-> BENCH, count |-> 1] >>

DefenseRosterSlots ==
    << [pos |-> QB, count |-> 1], [pos |-> DST, count |-> 1],
       [pos |-> BENCH, count |-> 1] >>

FormatLeagues ==
    << [num_teams |-> 10, roster_slots |-> SuperflexRosterSlots, league_config |-> TRUE,
        is_superflex |-> TRUE],
       [num_teams |-> 10, roster_slots |-> FourReceiverRosterSlots, league_config |-> TRUE,
        is_superflex |-> FALSE],
       [num_teams |-> 2, roster_slots |-> DstRosterSlots, league_config |-> TRUE,
        is_superflex |-> FALSE],
       [num_teams |-> 2, roster_slots |-> DRosterSlots, league_config |-> TRUE,
        is_superflex |-> FALSE],
       [num_teams |-> 2, roster_slots |-> DefenseRosterSlots, league_config |-> TRUE,
        is_superflex |-> FALSE],
       [num_teams |-> 10, roster_slots |-> DefaultRosterSlots, league_config |-> FALSE,
        is_superflex |-> TRUE] >>

\* the league of the session
FormatLeague == FormatLeagues[leagueIdx]

\* the positions of the players that are added
FormatPositions == << QB, RB, WR, DST >>

\* value scores, in tenths, of the candidates that are scored
ValueScores == {-35, 120}

\* players are added while fewer than MaxFormatAdds were added
MaxFormatAdds == 3

FormatInit ==
    /\ leagueIdx \in 1..Len(FormatLeagues)
    /\ currentPick = 1
    /\ draftedPlayers = << >>
    /\ myTeam = << >>
    /\ rosterManager = InitializeRoster(FormatLeague.roster_slots)
    /\ stateFile = NoFile
    /\ backups = {}
    /\ clock = 0
    /\ last = [op |-> "init", ok |-> FALSE, outcome |-> "empty_roster",
               save |-> "not_called", unlinked |-> 0]

\* roster_manager.add_player(name, position, pick) with the next pick number
FormatAdd ==
    /\ currentPick <= MaxFormatAdds
    /\ \E p \in 1..Len(FormatPositions) :
          Added(AddPlayer(rosterManager, AddedName, FormatPositions[p], currentPick))

\* the loop body of get_draft_recommendation for one candidate: need_score and the
\* weighted total_score (in hundredths) of a row with the given position and value
ScoreCandidate ==
    \E p \in 1..Len(SlotPositions), value \in ValueScores :
        LET need == TeamNeedScore(FormatLeague, Mem, SlotPositions[p])
        IN  /\ last' = [op |-> "score", ok |-> TRUE, outcome |-> "scored",
                        save |-> "not_called", unlinked |-> 0,
                        position |-> SlotPositions[p], value |-> value, need |-> need,
                        total |-> TotalScore(FormatLeague, Mem, value, need)]
            /\ UNCHANGED << leagueIdx, currentPick, draftedPlayers, myTeam, rosterManager,
                            stateFile, backups, clock >>

FormatNext ==
    \/ FormatAdd
    \/ ScoreCandidate

FormatSpec == FormatInit /\ [][FormatNext]_vars

\* the slot names of the roster
RosterSlotNames == { rosterManager[i].slot : i \in 1..Len(rosterManager) }

\* the names the claim gives the slots of one item of the roster map
NamesOfItem(item) ==
    IF item.count > 1 \/ item.pos = BENCH
    THEN { item.pos \o IntToStr(n) : n \in 1..item.count }
    ELSE IF item.count = 1 THEN { item.pos } ELSE {}

\* C22: roster initialization creates one slot per unit of each configured slot type:
\* the number of slots equals the sum of all counts of the league's roster-slot map, a
\* type with count n > 1 yields the names T1..Tn, a type with count 1 the bare name T,
\* bench slots are always numbered BENCH1..N, and all slots start empty.
C22_OneSlotPerConfiguredUnit ==
    /\ Len(rosterManager) = SumCounts(FormatLeague.roster_slots)
    /\ \A i \in 1..Len(FormatLeague.roster_slots) :
          NamesOfItem(FormatLeague.roster_slots[i]) \subseteq RosterSlotNames
    /\ last.op = "init" => \A i \in 1..Len(rosterManager) : rosterManager[i].player = None

\* the candidate just scored has a position that exists in the league and is not
\* deferred
ScoredEligibleCandidate ==
    /\ last.op = "score"
    /\ PositionExistsInLeague(FormatLeague, last.position)
    /\ ~ShouldDeferPosition(FormatLeague, Mem, last.position)

\* an empty starting slot of the slot type pos (no flex, no bench), whatever its number
DedicatedSlotEmpty(pos) ==
    \E i \in 1..Len(rosterManager) :
        /\ rosterManager[i].player = None
        /\ SlotTypeOf(rosterManager[i].slot) = pos

\* C23: for every candidate whose position is eligible in the league and not deferred,
\* the need score is +20 whenever a dedicated starting slot of that position is empty,
\* for every configured slot count and every slot index, the 4th and later included.
C23_EmptyStarterScoresTwenty ==
    (ScoredEligibleCandidate /\ DedicatedSlotEmpty(last.position)) => last.need = 20

\* an empty slot of the slot type t
SlotEmpty(t) ==
    \E i \in 1..Len(rosterManager) :
        /\ rosterManager[i].player = None
        /\ SlotTypeOf(rosterManager[i].slot) = t

\* the candidate just scored is an eligible, non-deferred QB, RB, WR or TE with no
\* empty starting slot of its own
ScoredFlexCandidate ==
    /\ ScoredEligibleCandidate
    /\ last.position \in {QB, RB, WR, TE}
    /\ ~DedicatedSlotEmpty(last.position)

\* min(5, (positionTarget - currentCount) * 2), or 0 at or above the target
DepthScore(pos) ==
    IF RosterCount(pos) >= NeedTarget(FormatLeague, pos) THEN 0
    ELSE Smaller(5, (NeedTarget(FormatLeague, pos) - RosterCount(pos)) * 2)

\* C24 as stated: for every eligible, non-deferred candidate of position QB, RB, WR or
\* TE that fills no critical slot, the need score is +10 whenever any FLEX or OP slot
\* is empty; otherwise it is the depth score min(5, (positionTarget - currentCount) * 2),
\* or 0 when the count is at or above the target.
C24_AnyFlexOrOpScoresTen ==
    ScoredFlexCandidate =>
        last.need = IF SlotEmpty(FLEX) \/ SlotEmpty(OP) THEN 10
                    ELSE DepthScore(last.position)

\* C24, amended: for every eligible, non-deferred candidate of position QB, RB, WR or TE
\* with no empty starting slot of its own position, the need score is +10 whenever an
\* OP slot is empty, or a FLEX slot is empty and the candidate is an RB, WR or TE;
\* otherwise (a quarterback with only FLEX slots open included) it is the depth score.
C24_FlexScoresTenForFlexEligible ==
    ScoredFlexCandidate =>
        last.need = IF SlotEmpty(OP) \/ (SlotEmpty(FLEX) /\ last.position \in {RB, WR, TE})
                    THEN 10
                    ELSE DepthScore(last.position)

\* a quarterback is scored while the QB and OP slots are filled and a FLEX slot is
\* empty: he gets the depth score
C24_QuarterbackWithOnlyFlexOpen ==
    /\ ScoredFlexCandidate
    /\ last.position = QB
    /\ SlotEmpty(FLEX)
    /\ ~SlotEmpty(OP)
    /\ last.need = DepthScore(QB)
    /\ last.need # 10

\* the candidate just scored is one get_draft_recommendation scores: its position is
\* eligible, and before the late rounds it is not deferred
ScoredCandidate ==
    /\ last.op = "score"
    /\ PositionExistsInLeague(FormatLeague, last.position)
    /\ IsLateRound(FormatLeague, Mem) \/ ~ShouldDeferPosition(FormatLeague, Mem, last.position)

\* an empty critical starting slot belongs to a position that is not deferred now: a
\* QB, RB, WR or TE slot of any number, or a K or D/ST slot in the late rounds
UndeferredStarterEmpty ==
    \E i \in 1..Len(rosterManager) :
        /\ rosterManager[i].player = None
        /\ \/ SlotTypeOf(rosterManager[i].slot) \in {QB, RB, WR, TE}
           \/ /\ SlotTypeOf(rosterManager[i].slot) \in {KK, DST}
              /\ IsLateRound(FormatLeague, Mem)

\* C25: for every scored candidate, totalScore = 0.4 * valueScore + 0.6 * needScore when
\* at least one empty critical starting slot belongs to a position that is not deferred
\* now, and 0.6 * valueScore + 0.4 * needScore when there is no such slot; an empty
\* critical slot counts as non-deferred whenever its position is QB, RB, WR or TE,
\* whatever its slot index (scores in tenths, totals in hundredths).
C25_NeedWeighsMoreWhileStartersAreOpen ==
    ScoredCandidate =>
        last.total = IF UndeferredStarterEmpty
                     THEN 4 * last.value + 6 * (10 * last.need)
                     ELSE 6 * last.value + 4 * (10 * last.need)

\* the league's roster map names a defense slot, by "D/ST" or by an alias
DefenseConfigured ==
    \E i \in 1..Len(FormatLeague.roster_slots) :
        /\ FormatLeague.roster_slots[i].pos \in {DST, DSTAlias, DAlias}
        /\ FormatLeague.roster_slots[i].count > 0

\* C27: a league whose roster map names the defense slot by an alias ("DST" or "D")
\* behaves as one that names it "D/ST": a defense roster slot is created, the D/ST
\* players of the pool are kept as eligible, and a D/ST player added to my team fills
\* the defense slot.
C27_DefenseAliasNamesTheDefenseSlot ==
    DefenseConfigured =>
        /\ \E i \in 1..Len(rosterManager) : SlotTypeOf(rosterManager[i].slot) = DST
        /\ \E row \in Range(LoadPlayers(FormatLeague, RawPool)) : row.position = DST
        /\ RosterCount(DST) > 0 =>
              \E i \in 1..Len(rosterManager) :
                  /\ SlotTypeOf(rosterManager[i].slot) = DST
                  /\ rosterManager[i].player # None
                  /\ rosterManager[i].player.position = DST

----------------------------------------------------------------------------
(* LeagueConfig.from_dict: configurations with explicit flex definitions    *)

\* the flex definitions a configuration dictionary may list
FlexDefinitions ==
    { [name |-> n, eligible_positions |-> e] :
        n \in {FLEX, SUPERFLEX, OP, WR_TE},
        e \in {{RB, WR, TE}, {QB, RB, WR, TE}, {WR, TE}} }

\* the "roster_positions" of the dictionaries
FlexRosterMaps ==
    << << [pos |-> QB, count |-> 1], [pos |-> BENCH, count |-> 1] >>,
       << [pos |-> QB, count |-> 1], [pos |-> FLEX, count |-> 1] >>,
       << [pos |-> QB, count |-> 1], [pos |-> OP, count |-> 1] >> >>

\* a dictionary lists at most MaxFlexDefinitions flex definitions
MaxFlexDefinitions == 2

\* the lists of flex definitions of the dictionaries
FlexLists ==
    UNION { [1..n -> FlexDefinitions] : n \in 0..MaxFlexDefinitions }

\* __post_init__ and _parse_flex_positions: the explicit definitions when there are
\* some, the factory definitions of the roster map's flex keys otherwise
FlexPositionsOf(rosterPositions, flexPositions) ==
    IF flexPositions # << >>
    THEN Range(flexPositions)
    ELSE { [name |-> f, eligible_positions |-> FlexEligible(f)] :
             f \in ParseFlexPositions(rosterPositions) }

\* has_superflex
HasSuperflex(flexes) ==
    \E flex \in flexes : flex.name = SUPERFLEX

\* has_op
HasOp(flexes) ==
    \E flex \in flexes : flex.name = OP

\* has_qb_flex
HasQbFlexOf(flexes) ==
    HasSuperflex(flexes) \/ HasOp(flexes)

\* qb_value_multiplier, in tenths
QbValueMultiplier(flexes) ==
    IF HasSuperflex(flexes) \/ HasOp(flexes) THEN 15 ELSE 10

FlexInit ==
    /\ leagueIdx = 1
    /\ currentPick = FreshState(1).current_pick
    /\ draftedPlayers = FreshState(1).drafted_players
    /\ myTeam = FreshState(1).my_team
    /\ rosterManager = FreshState(1).roster
    /\ stateFile = NoFile
    /\ backups = {}
    /\ clock = 0
    /\ \E m \in 1..Len(FlexRosterMaps), flexList \in FlexLists :
          last = [op |-> "data", ok |-> FALSE, outcome |-> "dictionary",
                  save |-> "not_called", unlinked |-> 0,
                  roster_positions |-> FlexRosterMaps[m], flex_positions |-> flexList]

\* LeagueConfig.from_dict(data) and the two properties read from the configuration
FromDict ==
    /\ last.op = "data"
    /\ LET flexes == FlexPositionsOf(last.roster_positions, last.flex_positions)
       IN  last' = [op |-> "from_dict", ok |-> TRUE, outcome |-> "configured",
                    save |-> "not_called", unlinked |-> 0,
                    roster_positions |-> last.roster_positions,
                    flex_positions |-> flexes,
                    has_qb_flex |-> HasQbFlexOf(flexes),
                    qb_value_multiplier |-> QbValueMultiplier(flexes)]
    /\ UNCHANGED << leagueIdx, currentPick, draftedPlayers, myTeam, rosterManager,
                    stateFile, backups, clock >>

FlexNext == FromDict

FlexSpec == FlexInit /\ [][FlexNext]_vars

\* C26: for every league configuration, those built from explicit flex definitions
\* included, has_qb_flex is true exactly when at least one flex slot's eligibility set
\* contains QB, and qb_value_multiplier is 1.5 exactly when has_qb_flex is true and
\* 1.0 otherwise.
C26_QbFlexFollowsEligibility ==
    last.op = "from_dict" =>
        /\ last.has_qb_flex <=> \E flex \in last.flex_positions : QB \in flex.eligible_positions
        /\ last.qb_value_multiplier = IF last.has_qb_flex THEN 15 ELSE 10

----------------------------------------------------------------------------
(* A session whose saves may be interrupted again and again                 *)

\* picks are typed while current_pick <= MaxCrashPick
MaxCrashPick == 1

\* the name typed for a draft: Inputs[1]
CrashInputs == {1}

\* the wall clock is followed for MaxCrashSeconds seconds
MaxCrashSeconds == 1

\* last.saving is the snapshot the command's save was writing, last.completed the
\* snapshot of the last save that ran to its end, last.interrupted tells whether a
\* save was interrupted since then
CrashInit ==
    /\ leagueIdx = 1
    /\ currentPick = FreshState(leagueIdx).current_pick
    /\ draftedPlayers = FreshState(leagueIdx).drafted_players
    /\ myTeam = FreshState(leagueIdx).my_team
    /\ rosterManager = FreshState(leagueIdx).roster
    /\ stateFile = NoFile
    /\ backups = {}
    /\ clock = 0
    /\ last = [op |-> "init", ok |-> FALSE, outcome |-> "starting_fresh",
               save |-> "not_called", unlinked |-> 0,
               saving |-> NoFile, completed |-> NoFile, interrupted |-> FALSE]

\* a command that ran, and its save_draft_state stopped at fault when it was called
RanInterruptible(op, r, fault) ==
    /\ SetMem(r.st)
    /\ Disk(r.ok, SaveFiles(SaveDraftState(leagueIdx, r.st), stateFile, backups, clock, fault))
    /\ last' = [op |-> op, ok |-> r.ok, outcome |-> r.outcome,
                save |-> IF r.ok THEN fault ELSE "not_called",
                unlinked |-> IF r.ok /\ fault = Completed
                             THEN UnlinkCalls(WriteBackup(backups, clock, Truncated))
                             ELSE 0,
                saving |-> IF r.ok THEN SaveDraftState(leagueIdx, r.st) ELSE NoFile,
                completed |-> IF r.ok /\ fault = Completed
                              THEN SaveDraftState(leagueIdx, r.st)
                              ELSE last.completed,
                interrupted |-> IF r.ok THEN fault # Completed ELSE last.interrupted]
    /\ UNCHANGED << leagueIdx, clock >>

CrashDraftMine ==
    /\ currentPick <= MaxCrashPick
    /\ \E k \in CrashInputs, fault \in SaveEndings :
          RanInterruptible("draft", DraftPlayer(leagueIdx, Mem, k, "my_team"), fault)

CrashUndo ==
    \E fault \in SaveEndings : RanInterruptible("undo", UndoLastPick(Mem), fault)

CrashManualSave ==
    \E fault \in SaveEndings : RanInterruptible("save", Outcome(TRUE, "saved", Mem), fault)

CrashSecondPasses ==
    ClockAdvances(MaxCrashSeconds)

CrashNext ==
    \/ CrashDraftMine
    \/ CrashUndo
    \/ CrashManualSave
    \/ CrashSecondPasses

CrashSpec == CrashInit /\ [][CrashNext]_vars

\* the contents of the state file and of the backup files
Copies == { stateFile } \cup { f.content : f \in backups }

CopiesNext == { stateFile' } \cup { f.content : f \in backups' }

----------------------------------------------------------------------------
(* A session of drafts, drops and undos with the record of its commits      *)

\* picks are typed while current_pick <= MaxUndoPick
MaxUndoPick == 3

\* last.commits lists, oldest first, the picks committed by the successful draft_player
\* calls that were not undone: [player, pick, mine, dropped]
UndoInit ==
    /\ leagueIdx \in 1..Len(Leagues)
    /\ currentPick = FreshState(leagueIdx).current_pick
    /\ draftedPlayers = FreshState(leagueIdx).drafted_players
    /\ myTeam = FreshState(leagueIdx).my_team
    /\ rosterManager = FreshState(leagueIdx).roster
    /\ stateFile = NoFile
    /\ backups = {}
    /\ clock = 0
    /\ last = [op |-> "init", ok |-> FALSE, outcome |-> "starting_fresh",
               save |-> "not_called", unlinked |-> 0, commits |-> << >>]

\* the entries of my_team that a command took away
RemovedEntries(before, after) ==
    { e \in Range(before) : e \notin Range(after) }

\* the commit that put the entry on my team
CommitOf(c, entries) ==
    c.mine /\ \E e \in entries : e.player = c.player /\ e.pick = c.pick

\* the record of commits after a command that went from st to r.st
CommitsAfter(commits, op, st, r) ==
    IF ~r.ok THEN commits
    ELSE IF op \in {"draft", "mark_other"}
    THEN Append(commits, [player |-> r.st.drafted_players[Len(r.st.drafted_players)],
                          pick |-> st.current_pick,
                          mine |-> op = "draft",
                          dropped |-> FALSE])
    ELSE IF op = "drop"
    THEN [i \in 1..Len(commits) |->
            IF CommitOf(commits[i], RemovedEntries(st.my_team, r.st.my_team))
            THEN [commits[i] EXCEPT !.dropped = TRUE]
            ELSE commits[i]]
    ELSE SelectSeq(commits,
                   LAMBDA c : ~CommitOf(c, RemovedEntries(st.my_team, r.st.my_team)))

\* a command that ran and saved, and the record of commits it leaves
RanRecorded(op, r) ==
    /\ SetMem(r.st)
    /\ Disk(r.ok, SaveFiles(SaveDraftState(leagueIdx, r.st), stateFile, backups, clock,
                            Completed))
    /\ last' = [op |-> op, ok |-> r.ok, outcome |-> r.outcome,
                save |-> IF r.ok THEN Completed ELSE "not_called",
                unlinked |-> IF r.ok THEN UnlinkCalls(WriteBackup(backups, clock, Truncated))
                             ELSE 0,
                commits |-> CommitsAfter(last.commits, op, Mem, r)]
    /\ UNCHANGED << leagueIdx, clock >>

UndoDraftMine ==
    /\ currentPick <= MaxUndoPick
    /\ \E k \in 1..Len(Inputs) :
          RanRecorded("draft", DraftPlayer(leagueIdx, Mem, k, "my_team"))

UndoDraftOther ==
    /\ currentPick <= MaxUndoPick
    /\ \E k \in 1..Len(Inputs) :
          RanRecorded("mark_other", DraftPlayer(leagueIdx, Mem, k, "other"))

UndoDrop ==
    \E k \in 1..Len(Inputs) : RanRecorded("drop", DropPlayer(Mem, Inputs[k]))

UndoUndo ==
    RanRecorded("undo", UndoLastPick(Mem))

UndoNext ==
    \/ UndoDraftMine
    \/ UndoDraftOther
    \/ UndoDrop
    \/ UndoUndo

UndoSpec == UndoInit /\ [][UndoNext]_vars

\* C29: in any sequence of draft_player (either team), drop_player and undo_last_pick
\* from the fresh state, an undo that succeeds removes the pick committed by the most
\* recent successful draft_player call that was not undone yet; it never removes an
\* older pick and never succeeds when that commit was another team's pick or was
\* dropped since.  The pick numbers in my_team are strictly increasing and all
\* smaller than current_pick.
C29_UndoTakesBackTheLatestCommit ==
    /\ [][(last'.op = "undo" /\ last'.ok) =>
             /\ last.commits # << >>
             /\ last.commits[Len(last.commits)].mine
             /\ ~last.commits[Len(last.commits)].dropped
             /\ Cardinality(RemovedEntries(myTeam, myTeam')) = 1
             /\ CommitOf(last.commits[Len(last.commits)], RemovedEntries(myTeam, myTeam'))
             /\ Len(myTeam') = Len(myTeam) - 1
             /\ currentPick' = currentPick - 1]_vars
    /\ [](/\ \A i \in 1..Len(myTeam) : myTeam[i].pick < currentPick
          /\ \A i, j \in 1..Len(myTeam) : i < j => myTeam[i].pick < myTeam[j].pick)

\* an undo has taken back my latest pick while an older pick of mine and another
\* team's pick stay committed
C29_UndoAfterDropAndOtherPick ==
    /\ last.op = "undo"
    /\ last.ok
    /\ myTeam # << >>
    /\ \E i \in 1..Len(last.commits) : ~last.commits[i].mine

----------------------------------------------------------------------------
(* Sessions started on a state file that lacks a key                        *)

\* key in obj
JHas(obj, key) ==
    \E k \in 1..Len(obj.members) : obj.members[k].key = key

\* the object without the member named key
WithoutKey(obj, key) ==
    JObj(SelectSeq(obj.members, LAMBDA m : m.key # key))

\* the file without the member named key of its object named outer
WithoutInnerKey(file, outer, key) ==
    JObj([k \in 1..Len(file.members) |->
            IF file.members[k].key = outer
            THEN Member(outer, WithoutKey(file.members[k].value, key))
            ELSE file.members[k]])

\* the keys load_draft_state reads: a top-level key, or [object, key]
RequiredKeys ==
    { << "timestamp" >>, << "draft_progress" >>, << "roster_state" >>,
      << "draft_progress", "current_pick" >>, << "draft_progress", "drafted_players" >>,
      << "draft_progress", "my_team" >>, << "roster_state", "roster" >> }

LacksKey(file, path) ==
    IF Len(path) = 1 THEN WithoutKey(file, path[1])
    ELSE WithoutInnerKey(file, path[1], path[2])

HasEveryKey(file) ==
    /\ file \notin {NoFile, Truncated}
    /\ \A path \in RequiredKeys :
          /\ JHas(file, path[1])
          /\ Len(path) = 2 => JHas(JGet(file, path[1]), path[2])

\* load_draft_state on any file: the assignments are made one after the other, and
\* the KeyError of a missing key is caught after those made before it
LoadStateFile(st, file) ==
    IF file = NoFile THEN Outcome(FALSE, "starting_fresh", st)
    ELSE IF file = Truncated THEN Outcome(FALSE, "load_failed", st)
    ELSE IF ~JHas(file, "draft_progress") THEN Outcome(FALSE, "load_failed", st)
    ELSE IF ~JHas(JGet(file, "draft_progress"), "current_pick")
    THEN Outcome(FALSE, "load_failed", st)
    ELSE
      LET progress == JGet(file, "draft_progress")
          st1 == [st EXCEPT !.current_pick = JGet(progress, "current_pick").n]
      IN  IF ~JHas(progress, "drafted_players") THEN Outcome(FALSE, "load_failed", st1)
          ELSE
            LET st2 == [st1 EXCEPT !.drafted_players =
                          [i \in 1..Len(JGet(progress, "drafted_players").items) |->
                             JGet(progress, "drafted_players").items[i].s]]
            IN  IF ~JHas(progress, "my_team") THEN Outcome(FALSE, "load_failed", st2)
                ELSE
                  LET st3 == [st2 EXCEPT !.my_team =
                                [i \in 1..Len(JGet(progress, "my_team").items) |->
                                   LoadTeamEntry(JGet(progress, "my_team").items[i])]]
                  IN  IF \/ ~JHas(file, "roster_state")
                         \/ ~JHas(JGet(file, "roster_state"), "roster")
                      THEN Outcome(FALSE, "load_failed", st3)
                      ELSE
                        LET saved == JGet(JGet(file, "roster_state"), "roster").members
                            st4 == [st3 EXCEPT !.roster =
                                      NoneStringsToNone(
                                          [i \in 1..Len(saved) |->
                                             [slot |-> saved[i].key,
                                              player |-> LoadSlotValue(saved[i].value)]])]
                        IN  IF ~JHas(file, "timestamp")
                            THEN Outcome(FALSE, "load_failed", st4)
                            ELSE Outcome(TRUE, "loaded", st4)

\* picks are typed while current_pick <= MaxLoadPick
MaxLoadPick == 2

LoadDraftMine ==
    /\ currentPick <= MaxLoadPick
    /\ \E k \in 1..Len(Inputs) : Ran("draft", DraftPlayer(leagueIdx, Mem, k, "my_team"))

LoadDraftOther ==
    /\ currentPick <= MaxLoadPick
    /\ \E k \in 1..Len(Inputs) : Ran("mark_other", DraftPlayer(leagueIdx, Mem, k, "other"))

\* between two sessions the state file is replaced by one that lacks a key (a file of
\* another version of the tool, or one edited by hand), or by a truncated one
KeyLost ==
    /\ HasEveryKey(stateFile)
    /\ \/ \E path \in RequiredKeys : stateFile' = LacksKey(stateFile, path)
       \/ stateFile' = Truncated
    /\ last' = [op |-> "file_replaced", ok |-> FALSE, outcome |-> "file_replaced",
                save |-> "not_called", unlinked |-> 0]
    /\ UNCHANGED << leagueIdx, currentPick, draftedPlayers, myTeam, rosterManager,
                    backups, clock >>

\* the tool is started again: __init__ sets the fresh fields, then load_draft_state()
Restart ==
    LET r == LoadStateFile(FreshState(leagueIdx), stateFile)
    IN  /\ SetMem(r.st)
        /\ last' = [op |-> "load", ok |-> r.ok, outcome |-> r.outcome,
                    save |-> "not_called", unlinked |-> 0]
        /\ UNCHANGED << leagueIdx, stateFile, backups, clock >>

LoadNext ==
    \/ LoadDraftMine
    \/ LoadDraftOther
    \/ KeyLost
    \/ Restart

LoadSpec == Init /\ [][LoadNext]_vars

\* C30: loading the state file is all-or-nothing: either current_pick,
\* drafted_players, my_team and the roster are all replaced by the file's values and
\* success is reported, or (file missing, unreadable or lacking a required key) failure
\* is reported and all four keep the values they had before the load, so that a
\* session that reports starting fresh is in the fresh state.
C30_LoadIsAllOrNothing ==
    [][last'.op = "load" =>
          \/ /\ last'.ok
             /\ HasEveryKey(stateFile)
             /\ MemNext = LoadDraftState(FreshState(leagueIdx), stateFile).st
          \/ /\ ~last'.ok
             /\ ~HasEveryKey(stateFile)
             /\ MemNext = FreshState(leagueIdx)]_vars

====
